---- MODULE Spec2Model ----
(***************************************************************************)
(* Model of the vitalis analyzer core:                                     *)
(*   - the repository health evaluators check_github_health and            *)
(*     check_gitlab_health (analyzer/services/repo_health.py),             *)
(*   - the timestamp helper parse_iso8601_timestamp                        *)
(*     (analyzer/utils/helpers.py),                                        *)
(*   - the repository URL resolver parse_repo_url, extract_repo_info and   *)
(*     extract_npm_repo_info (analyzer/services/package_info.py),          *)
(*   - the loop of analyze() over the dependencies (analyzer/main.py),     *)
(*   - the extract command of the CLI (extractor/cli.py).                  *)
(*                                                                         *)
(* Python None and Optional values are modelled as tuples: None is <<>>    *)
(* and a present value v is <<v>>.  Formatted messages (f-strings) are     *)
(* records [fmt, val] holding the template and the interpolated value.     *)
(* Text that the code takes apart (URLs) is a sequence of one-character    *)
(* strings.                                                                *)
(***************************************************************************)
EXTENDS Integers, Sequences, FiniteSets, TLC

VARIABLES
    platform,     \* which evaluator runs: "github" or "gitlab"
    token,        \* the token argument
    headers,      \* the headers dict of the evaluator
    policy,       \* the Policy argument
    pc,           \* position of the evaluation
    result,       \* the HealthCheckResult under construction
    repo_data,    \* repo_data / project_data: the decoded metadata body
    idx,          \* loop position in README_FILES / LICENSE_FILES (GitLab)
    reqs,         \* the requests.get calls issued so far, in order
    exc,          \* the exception that left the evaluator, if any
    response,     \* status_code of the response to the latest request; None
                  \* before the first request and when the request raised
    url_parts,    \* the pieces the input URL was written from
    url,          \* argument of parse_repo_url
    parsed,       \* value returned by parse_repo_url
    pcU,          \* position of the parse_repo_url call
    info,         \* argument of extract_repo_info
    extracted,    \* value returned by extract_repo_info
    pcX,          \* position of the extract_repo_info call
    evals,        \* the evaluations of one process, each with its own locals
    heap,         \* the list objects of the process, by address
    deps,         \* the dependencies analyze() iterates over
    dep_i,        \* position of "for dep in dependencies"
    results,      \* the results list of analyze()
    pcA,          \* position of analyze()
    cli           \* the locals of one run of the CLI's extract command

healthVars == <<platform, token, headers, policy, pc, result, repo_data, idx, reqs, exc,
                response>>
urlVars == <<url_parts, url, parsed, pcU>>
extractVars == <<info, extracted, pcX>>
processVars == <<evals, heap, deps, dep_i, results, pcA, cli>>
vars == <<platform, token, headers, policy, pc, result, repo_data, idx, reqs, exc, response,
          url_parts, url, parsed, pcU, info, extracted, pcX,
          evals, heap, deps, dep_i, results, pcA, cli>>

----------------------------------------------------------------------------
(* Bounds of the model *)

\* a URL path is written from at most MaxSegs segments
MaxSegs == 3
\* a project_urls mapping holds at most MaxUrls entries
MaxUrls == 3

\* days_since_last_activity is explored within MaxSlack days of every threshold
MaxSlack == 1
\* the number of open issues ranges over 0..MaxCount; a star count, when the
\* metadata carries one, is MaxCount
MaxCount == 1
\* MaxEvals evaluations run in one process
MaxEvals == 2
\* a manifest declares at most MaxDeps dependencies
MaxDeps == 2

----------------------------------------------------------------------------
(* Optional values *)

None == <<>>

Some(v) == <<v>>

\* Python truthiness of an Optional[str] holding a timestamp text
Truthy(opt) == opt # None /\ opt[1].fmt # "empty"

\* dict.get(key): the value under key, or None
DictGet(d, key) == IF key \in DOMAIN d THEN Some(d[key]) ELSE None

\* dict.get(key, default)
DictGetDefault(d, key, default) == IF key \in DOMAIN d THEN d[key] ELSE default

----------------------------------------------------------------------------
(* Constants of repo_health.py and schemas.py *)

README_FILES ==
    << "README.md", "README.rst", "README.txt", "README",
       "README.markdown", "README.mdown", "README.mkdn" >>

LICENSE_FILES ==
    << "LICENSE", "LICENSE.md", "LICENSE.txt", "LICENSE.markdown", "LICENSE.mdown",
       "LICENSE.mkdn", "COPYING", "COPYING.md", "COPYING.txt", "COPYING.markdown",
       "COPYING.mdown", "COPYING.mkdn" >>

\* the informational inactivity threshold written in the code
InformationalDays == 90

\* Policy(): the default of max_inactive_days
DefaultMaxInactiveDays == 365

InactiveFmt == "Repository has been inactive for over {} days"

NoReadmeWarning == [fmt |-> "No README file found", val |-> None]

NoLicenseWarning == [fmt |-> "No LICENSE file found", val |-> None]

\* f"Repository has been inactive for over {n} days"
InactiveWarning(n) == [fmt |-> InactiveFmt, val |-> Some(n)]

ErrorPrefix(p) ==
    IF p = "github" THEN "Error checking GitHub repository: {}"
                    ELSE "Error checking GitLab repository: {}"

\* f"Error checking GitHub repository: {str(e)}"
ErrorEntry(p, e) == [fmt |-> ErrorPrefix(p), val |-> Some(e)]

\* the metadata keys each platform's evaluator reads
ActivityKey(p) == IF p = "github" THEN "pushed_at" ELSE "last_activity_at"

StarsKey(p) == IF p = "github" THEN "stargazers_count" ELSE "star_count"

ForksKey == "forks_count"

----------------------------------------------------------------------------
(* Inputs of an evaluation *)

Owner == "user"

Repo == "repo"

\* the instant datetime.now(timezone.utc) returns, in seconds
now_utc == 19000 * 86400 + 3600

MaxInactiveChoices == {30, InformationalDays, DefaultMaxInactiveDays}

Policies ==
    [max_inactive_days : MaxInactiveChoices, require_license : BOOLEAN,
     require_readme : BOOLEAN]

\* ages (in whole days) around zero, the 90 day threshold and the policy's threshold
DayChoices(pol) ==
    UNION { (t - MaxSlack) .. (t + MaxSlack) :
              t \in {0, InformationalDays, pol.max_inactive_days} }

FmtMillis == "%Y-%m-%dT%H:%M:%S.%fZ"

FmtSeconds == "%Y-%m-%dT%H:%M:%SZ"

\* a timestamp text: the layout it is written in and the instant it denotes.
\* Texts without a fraction lie a whole number of days back, texts with a
\* fraction one second short of the next day; "offset" stands for a text such
\* as 2024-05-01T10:00:00.000+02:00 and "empty" for the empty string
TimestampTexts(pol) ==
    { [fmt |-> FmtSeconds, instant |-> now_utc - d * 86400] : d \in DayChoices(pol) }
    \cup { [fmt |-> FmtMillis, instant |-> now_utc - (d * 86400 + 86399)] :
             d \in DayChoices(pol) }
    \cup { [fmt |-> "offset", instant |-> now_utc - 86400] }
    \cup { [fmt |-> "empty", instant |-> 0] }

EmptyDict == [k \in {} |-> 0]

Entry(k, opt) == IF opt = None THEN EmptyDict ELSE (k :> opt[1])

\* the JSON bodies the metadata request can answer with: each key the code
\* reads is present or absent
MetadataBodies(p, pol) ==
    { Entry(ActivityKey(p), a) @@ Entry(StarsKey(p), s) @@ Entry(ForksKey, f) :
        a \in {None} \cup { Some(t) : t \in TimestampTexts(pol) },
        s \in {None, Some(MaxCount)},
        f \in {None, Some(0)} }

\* names a repository root listing may hold
ListingNames == {"README.md", "Readme.RST", "license", "main.py"}

\* str.lower() on the file names that occur
Lower(n) ==
    CASE n = "README.md" -> "readme.md"
      [] n = "README.rst" -> "readme.rst"
      [] n = "Readme.RST" -> "readme.rst"
      [] n = "README.txt" -> "readme.txt"
      [] n = "README" -> "readme"
      [] n = "README.markdown" -> "readme.markdown"
      [] n = "README.mdown" -> "readme.mdown"
      [] n = "README.mkdn" -> "readme.mkdn"
      [] n = "LICENSE" -> "license"
      [] n = "LICENSE.md" -> "license.md"
      [] n = "LICENSE.txt" -> "license.txt"
      [] n = "LICENSE.markdown" -> "license.markdown"
      [] n = "LICENSE.mdown" -> "license.mdown"
      [] n = "LICENSE.mkdn" -> "license.mkdn"
      [] n = "COPYING" -> "copying"
      [] n = "COPYING.md" -> "copying.md"
      [] n = "COPYING.txt" -> "copying.txt"
      [] n = "COPYING.markdown" -> "copying.markdown"
      [] n = "COPYING.mdown" -> "copying.mdown"
      [] n = "COPYING.mkdn" -> "copying.mkdn"
      [] OTHER -> n

\* the token argument: absent, the empty text (a variable set to nothing in
\* the environment), or a token
TokenChoices == { None, Some(""), Some("secret") }

\* what requests.get raises when the request itself fails
RequestFailures == {"ConnectionError"}

\* statuses a response can carry; raise_for_status() raises HTTPError unless 200
Statuses == {200, 404}

----------------------------------------------------------------------------
(* analyzer/utils/helpers.py *)

\* parse_iso8601_timestamp: the instant of a text in one of the two accepted
\* layouts; any other text raises ValueError
parse_iso8601_timestamp(ts) ==
    IF ts.fmt = FmtMillis
    THEN [raised |-> None, instant |-> ts.instant]
    ELSE IF ts.fmt = FmtSeconds
         THEN [raised |-> None, instant |-> ts.instant]
         ELSE [raised |-> Some("ValueError"), instant |-> 0]

----------------------------------------------------------------------------
(* analyzer/services/repo_health.py *)

\* HealthCheckResult(repository_url=..., platform=..., owner=..., repo_name=...)
NewResult(p, owner, repo) ==
    [ repository_url |->
          << IF p = "github" THEN "https://github.com/" ELSE "https://gitlab.com/",
             owner, "/", repo >>,
      platform |-> p,
      owner |-> owner,
      repo_name |-> repo,
      last_activity |-> None,
      days_since_last_activity |-> None,
      open_issues_count |-> None,
      stars_count |-> None,
      forks_count |-> None,
      has_readme |-> FALSE,
      has_license |-> FALSE,
      warnings |-> << >>,
      errors |-> << >>,
      is_healthy |-> TRUE ]

\* faulty variant of Headers: the token is attached nowhere
HeadersWithoutToken(p, tok) ==
    IF p = "github" THEN "Accept" :> "application/vnd.github.v3+json" ELSE EmptyDict

\* the headers dict, lines 38-40 / 103-105; "if token" fails for None and ""
Headers(p, tok) ==
    LET given == tok # None /\ tok[1] # "" IN
    IF p = "github"
    THEN ("Accept" :> "application/vnd.github.v3+json")
         @@ (IF given THEN "Authorization" :> [fmt |-> "token {}", val |-> tok]
                      ELSE EmptyDict)
    ELSE IF given THEN "PRIVATE-TOKEN" :> tok[1] ELSE EmptyDict

\* (now - last_activity).days: timedelta.days is the floor of the difference
DaysBetween(now, then) == (now - then) \div 86400

\* faulty variant of ApplyInactivityPolicy: the second test is an "if", not an "elif"
ApplyInactivityPolicyTwoIfs(res, pol) ==
    LET d == res.days_since_last_activity[1]
        r1 == IF d > pol.max_inactive_days
              THEN [res EXCEPT !.warnings = Append(@, InactiveWarning(pol.max_inactive_days)),
                               !.is_healthy = FALSE]
              ELSE res
    IN  IF d > InformationalDays
        THEN [r1 EXCEPT !.warnings = Append(@, InactiveWarning(InformationalDays))]
        ELSE r1

\* the inactivity branch: if days > max_inactive_days ... elif days > 90 ...
ApplyInactivityPolicy(res, pol) ==
    LET d == res.days_since_last_activity[1] IN
    IF d > pol.max_inactive_days
    THEN [res EXCEPT !.warnings = Append(@, InactiveWarning(pol.max_inactive_days)),
                     !.is_healthy = FALSE]
    ELSE IF d > InformationalDays
         THEN [res EXCEPT !.warnings = Append(@, InactiveWarning(InformationalDays))]
         ELSE res

\* faulty variant of EnforceReadme: the warning is appended, the flag not cleared
EnforceReadmeWarnsOnly(res, pol) ==
    IF pol.require_readme /\ ~res.has_readme
    THEN [res EXCEPT !.warnings = Append(@, NoReadmeWarning)]
    ELSE res

\* if policy.require_readme and not result.has_readme: ...
EnforceReadme(res, pol) ==
    IF pol.require_readme /\ ~res.has_readme
    THEN [res EXCEPT !.warnings = Append(@, NoReadmeWarning), !.is_healthy = FALSE]
    ELSE res

\* faulty variant of EnforceLicense: the flag is assigned the outcome of this test
EnforceLicenseAssignsFlag(res, pol) ==
    IF pol.require_license /\ ~res.has_license
    THEN [res EXCEPT !.warnings = Append(@, NoLicenseWarning), !.is_healthy = FALSE]
    ELSE [res EXCEPT !.is_healthy = TRUE]

\* if policy.require_license and not result.has_license: ...
EnforceLicense(res, pol) ==
    IF pol.require_license /\ ~res.has_license
    THEN [res EXCEPT !.warnings = Append(@, NoLicenseWarning), !.is_healthy = FALSE]
    ELSE res

\* faulty variant of HandleRequestException: the failure is filed as a warning
HandleRequestExceptionAsWarning(res, p, e) ==
    [res EXCEPT !.warnings = Append(@, ErrorEntry(p, e)), !.is_healthy = FALSE]

\* faulty variant of HandleRequestException: after the error a warning is
\* appended for the files that were not checked
HandleRequestExceptionAndWarn(res, p, e) ==
    [res EXCEPT !.errors = Append(@, ErrorEntry(p, e)),
                !.warnings = Append(@, NoReadmeWarning),
                !.is_healthy = FALSE]

\* faulty variant of HandleRequestException: the error is recorded in a fresh
\* result object
HandleRequestExceptionFresh(res, p, e) ==
    [NewResult(p, res.owner, res.repo_name) EXCEPT
         !.errors = << ErrorEntry(p, e) >>, !.is_healthy = FALSE]

\* except requests.exceptions.RequestException as e: ...
HandleRequestException(res, p, e) ==
    [res EXCEPT !.errors = Append(@, ErrorEntry(p, e)), !.is_healthy = FALSE]

\* any(file["name"].lower() in [r.lower() for r in names] for file in contents)
AnyNamed(contents, names) ==
    \E file \in contents : \E i \in 1 .. Len(names) : Lower(file) = Lower(names[i])

\* faulty variant of ScanListing: the LICENSE test stands before the README test
ScanListingLicenseFirst(res, pol, contents) ==
    EnforceReadme(
        EnforceLicense(
            [res EXCEPT !.has_readme = AnyNamed(contents, README_FILES),
                        !.has_license = AnyNamed(contents, LICENSE_FILES)],
            pol),
        pol)

\* the body of "if contents_response.status_code == 200:" in check_github_health
ScanListing(res, pol, contents) ==
    EnforceLicense(
        EnforceReadme(
            [res EXCEPT !.has_readme = AnyNamed(contents, README_FILES),
                        !.has_license = AnyNamed(contents, LICENSE_FILES)],
            pol),
        pol)

\* the code from the decoded metadata body up to the issues request
ReadMetadata(res, p, pol, body) ==
    LET la == DictGet(body, ActivityKey(p))
        r1 == [res EXCEPT !.last_activity = la]
    IN  IF ~Truthy(la)
        THEN [raised |-> None, res |-> r1]
        ELSE LET t == parse_iso8601_timestamp(la[1]) IN
             IF t.raised # None
             THEN [raised |-> t.raised, res |-> r1]
             ELSE [raised |-> None,
                   res |-> ApplyInactivityPolicy(
                       [r1 EXCEPT !.days_since_last_activity =
                                      Some(DaysBetween(now_utc, t.instant))],
                       pol)]

\* the code from the decoded issues body up to the next request
ReadIssues(res, p, body, nIssues) ==
    [res EXCEPT !.open_issues_count = Some(nIssues),
                !.stars_count = Some(DictGetDefault(body, StarsKey(p), 0)),
                !.forks_count = Some(DictGetDefault(body, ForksKey, 0))]

----------------------------------------------------------------------------
(* The evaluation, one action per requests.get call.  Each action issues the  *)
(* request, draws the upstream's answer and runs the code up to the next      *)
(* request or to the return.                                                  *)

\* requests.get(url, headers=headers): what is asked for, and the headers sent
Request(what, name) == [what |-> what, name |-> name, headers |-> headers]

\* faulty variant of Abort: the error is recorded and the request is tried again
AbortAndRetry(e) ==
    /\ result' = HandleRequestException(result, platform, e)
    /\ UNCHANGED <<pc, repo_data, idx, exc>>

\* leave through the except clause and return the result
Abort(e) ==
    /\ result' = HandleRequestException(result, platform, e)
    /\ pc' = "returned"
    /\ UNCHANGED <<repo_data, idx, exc>>

\* requests.get(repo_url); raise_for_status(); json(); lines 49-64 / 114-129
FetchMetadata ==
    /\ pc = "metadata"
    /\ reqs' = Append(reqs, Request("metadata", None))
    /\ \/ \E e \in RequestFailures : Abort(e) /\ response' = None
       \/ \E st \in Statuses \ {200} : Abort("HTTPError") /\ response' = Some(st)
       \/ \E body \in MetadataBodies(platform, policy) :
            LET out == ReadMetadata(result, platform, policy, body) IN
            /\ repo_data' = body
            /\ result' = out.res
            /\ IF out.raised # None
               THEN pc' = "raised" /\ exc' = out.raised
               ELSE pc' = "issues" /\ exc' = exc
            /\ idx' = idx
            /\ response' = Some(200)
    /\ UNCHANGED <<platform, token, headers, policy, urlVars, extractVars, processVars>>

\* requests.get(issues_url); raise_for_status(); lines 65-72 / 130-141
FetchIssues ==
    /\ pc = "issues"
    /\ reqs' = Append(reqs, Request("issues", None))
    /\ \/ \E e \in RequestFailures : Abort(e) /\ response' = None
       \/ \E st \in Statuses \ {200} : Abort("HTTPError") /\ response' = Some(st)
       \/ \E n \in 0 .. MaxCount :
            /\ result' = ReadIssues(result, platform, repo_data, n)
            /\ pc' = IF platform = "github" THEN "contents" ELSE "readme"
            /\ idx' = IF platform = "github" THEN idx ELSE 1
            /\ response' = Some(200)
            /\ UNCHANGED <<repo_data, exc>>
    /\ UNCHANGED <<platform, token, headers, policy, urlVars, extractVars, processVars>>

\* faulty variant of FetchContents: the listing request is followed by
\* raise_for_status(), like the two requests before it
FetchContentsRaisesForStatus ==
    /\ pc = "contents"
    /\ platform = "github"
    /\ reqs' = Append(reqs, Request("contents", None))
    /\ \/ \E e \in RequestFailures : Abort(e) /\ response' = None
       \/ \E st \in Statuses \ {200} : Abort("HTTPError") /\ response' = Some(st)
       \/ \E contents \in SUBSET ListingNames :
            /\ result' = ScanListing(result, policy, contents)
            /\ pc' = "returned"
            /\ response' = Some(200)
            /\ UNCHANGED <<repo_data, idx, exc>>
    /\ UNCHANGED <<platform, token, headers, policy, urlVars, extractVars, processVars>>

\* check_github_health: requests.get(contents_url) and lines 76-85, then return
FetchContents ==
    /\ pc = "contents"
    /\ platform = "github"
    /\ reqs' = Append(reqs, Request("contents", None))
    /\ \/ \E e \in RequestFailures : Abort(e) /\ response' = None
       \/ \E st \in Statuses \ {200} :
            /\ pc' = "returned"
            /\ response' = Some(st)
            /\ UNCHANGED <<result, repo_data, idx, exc>>
       \/ \E contents \in SUBSET ListingNames :
            /\ result' = ScanListing(result, policy, contents)
            /\ pc' = "returned"
            /\ response' = Some(200)
            /\ UNCHANGED <<repo_data, idx, exc>>
    /\ UNCHANGED <<platform, token, headers, policy, urlVars, extractVars, processVars>>

\* faulty variant of ProbeReadme: the loop has no break
ProbeReadmeNoBreak ==
    /\ pc = "readme"
    /\ platform = "gitlab"
    /\ reqs' = Append(reqs, Request("file", Some(README_FILES[idx])))
    /\ \/ \E e \in RequestFailures : Abort(e) /\ response' = None
       \/ \E st \in Statuses :
            LET res == [result EXCEPT !.has_readme = @ \/ (st = 200)]
            IN  /\ response' = Some(st)
                /\ IF idx = Len(README_FILES)
                   THEN /\ result' = EnforceReadme(res, policy)
                        /\ pc' = "license"
                        /\ idx' = 1
                        /\ UNCHANGED <<repo_data, exc>>
                   ELSE /\ result' = res
                        /\ idx' = idx + 1
                        /\ UNCHANGED <<pc, repo_data, exc>>
    /\ UNCHANGED <<platform, token, headers, policy, urlVars, extractVars, processVars>>

\* check_gitlab_health: one pass of "for readme_name in README_FILES", lines 142-151
ProbeReadme ==
    /\ pc = "readme"
    /\ platform = "gitlab"
    /\ reqs' = Append(reqs, Request("file", Some(README_FILES[idx])))
    /\ \/ \E e \in RequestFailures : Abort(e) /\ response' = None
       \/ \E st \in Statuses :
            LET found == (st = 200)
                res == [result EXCEPT !.has_readme = found]
            IN  /\ response' = Some(st)
                /\ IF found \/ idx = Len(README_FILES)
                   THEN /\ result' = EnforceReadme(res, policy)
                        /\ pc' = "license"
                        /\ idx' = 1
                        /\ UNCHANGED <<repo_data, exc>>
                   ELSE /\ idx' = idx + 1
                        /\ UNCHANGED <<result, pc, repo_data, exc>>
    /\ UNCHANGED <<platform, token, headers, policy, urlVars, extractVars, processVars>>

\* check_gitlab_health: one pass of "for license_name in LICENSE_FILES", lines 154-163
ProbeLicense ==
    /\ pc = "license"
    /\ platform = "gitlab"
    /\ reqs' = Append(reqs, Request("file", Some(LICENSE_FILES[idx])))
    /\ \/ \E e \in RequestFailures : Abort(e) /\ response' = None
       \/ \E st \in Statuses :
            LET found == (st = 200)
                res == [result EXCEPT !.has_license = found]
            IN  /\ response' = Some(st)
                /\ IF found \/ idx = Len(LICENSE_FILES)
                   THEN /\ result' = EnforceLicense(res, policy)
                        /\ pc' = "returned"
                        /\ UNCHANGED <<repo_data, idx, exc>>
                   ELSE /\ idx' = idx + 1
                        /\ UNCHANGED <<result, pc, repo_data, exc>>
    /\ UNCHANGED <<platform, token, headers, policy, urlVars, extractVars, processVars>>

\* no analyze() request and no set of evaluations is examined
ProcessIdle ==
    /\ evals = << >> /\ heap = << >>
    /\ deps = << >> /\ dep_i = 0 /\ results = << >> /\ pcA = "idle"
    /\ cli = None

\* state of the two resolver calls while an evaluation is examined
ResolverIdle ==
    /\ url_parts = None /\ url = << >> /\ parsed = None /\ pcU = "idle"
    /\ info = None /\ extracted = None /\ pcX = "idle"

\* the evaluator has built its headers and its result object and is about to
\* send the first request
InitHealth ==
    /\ platform \in {"github", "gitlab"}
    /\ token \in TokenChoices
    /\ headers = Headers(platform, token)
    /\ policy \in Policies
    /\ result = NewResult(platform, Owner, Repo)
    /\ pc = "metadata"
    /\ repo_data = EmptyDict
    /\ idx = 0
    /\ reqs = << >>
    /\ exc = None
    /\ response = None
    /\ ResolverIdle
    /\ ProcessIdle

NextHealth ==
    \/ FetchMetadata
    \/ FetchIssues
    \/ FetchContents
    \/ ProbeReadme
    \/ ProbeLicense

SpecHealth == InitHealth /\ [][NextHealth]_vars

----------------------------------------------------------------------------
(* Text as sequences of one-character strings, with the str methods the      *)
(* resolver uses                                                             *)

\* s.startswith(p)
StartsWith(s, p) == Len(s) >= Len(p) /\ SubSeq(s, 1, Len(p)) = p

\* s.endswith(p)
EndsWith(s, p) == Len(s) >= Len(p) /\ SubSeq(s, Len(s) - Len(p) + 1, Len(s)) = p

\* s[n:]
DropFirst(s, n) == SubSeq(s, n + 1, Len(s))

\* s.find(c): index (from 1) of the first character of s that is in cs, 0 if none
RECURSIVE FindFrom(_, _, _)
FindFrom(s, cs, i) ==
    IF i > Len(s) THEN 0
    ELSE IF s[i] \in cs THEN i
    ELSE FindFrom(s, cs, i + 1)

\* s.lstrip(c)
RECURSIVE LStrip(_, _)
LStrip(s, c) == IF s # << >> /\ s[1] = c THEN LStrip(Tail(s), c) ELSE s

\* s.rstrip(c)
RECURSIVE RStrip(_, _)
RStrip(s, c) ==
    IF s # << >> /\ s[Len(s)] = c THEN RStrip(SubSeq(s, 1, Len(s) - 1), c) ELSE s

\* s.strip(c)
Strip(s, c) == RStrip(LStrip(s, c), c)

\* s.split(c): the pieces between the occurrences of c; never an empty list
RECURSIVE Split(_, _)
Split(s, c) ==
    LET i == FindFrom(s, {c}, 1) IN
    IF i = 0 THEN << s >>
    ELSE << SubSeq(s, 1, i - 1) >> \o Split(DropFirst(s, i), c)

\* s.replace(old, ""): every occurrence of old removed, scanning left to right
RECURSIVE RemoveAll(_, _)
RemoveAll(s, old) ==
    IF s = << >> THEN << >>
    ELSE IF StartsWith(s, old) THEN RemoveAll(DropFirst(s, Len(old)), old)
    ELSE << s[1] >> \o RemoveAll(Tail(s), old)

Letters ==
    { "a", "b", "c", "d", "e", "f", "g", "h", "i", "j", "k", "l", "m",
      "n", "o", "p", "q", "r", "s", "t", "u", "v", "w", "x", "y", "z" }

Digits == { "0", "1", "2", "3", "4", "5", "6", "7", "8", "9" }

\* urllib.parse.scheme_chars (the texts of the model are lower case)
SchemeChars == Letters \cup Digits \cup { "+", "-", "." }

\* urllib.parse.urlparse: scheme, netloc, path, query and fragment of a text
urlparse(u) ==
    LET i == FindFrom(u, {":"}, 1)
        hasScheme == /\ i > 1
                     /\ u[1] \in Letters
                     /\ \A k \in 1 .. (i - 1) : u[k] \in SchemeChars
        scheme == IF hasScheme THEN SubSeq(u, 1, i - 1) ELSE << >>
        u1 == IF hasScheme THEN DropFirst(u, i) ELSE u
        hasNetloc == StartsWith(u1, << "/", "/" >>)
        e == FindFrom(u1, { "/", "?", "#" }, 3)
        netloc == IF ~hasNetloc THEN << >>
                  ELSE IF e = 0 THEN DropFirst(u1, 2)
                  ELSE SubSeq(u1, 3, e - 1)
        u2 == IF ~hasNetloc THEN u1
              ELSE IF e = 0 THEN << >>
              ELSE DropFirst(u1, e - 1)
        h == FindFrom(u2, { "#" }, 1)
        fragment == IF h = 0 THEN << >> ELSE DropFirst(u2, h)
        u3 == IF h = 0 THEN u2 ELSE SubSeq(u2, 1, h - 1)
        q == FindFrom(u3, { "?" }, 1)
        query == IF q = 0 THEN << >> ELSE DropFirst(u3, q)
        path == IF q = 0 THEN u3 ELSE SubSeq(u3, 1, q - 1)
    IN  [scheme |-> scheme, netloc |-> netloc, path |-> path,
         query |-> query, fragment |-> fragment]

----------------------------------------------------------------------------
(* analyzer/services/package_info.py: parse_repo_url *)

GitPlus == << "g", "i", "t", "+" >>

DotGit == << ".", "g", "i", "t" >>

GithubCom == << "g", "i", "t", "h", "u", "b", ".", "c", "o", "m" >>

GitlabCom == << "g", "i", "t", "l", "a", "b", ".", "c", "o", "m" >>

BitbucketOrg == << "b", "i", "t", "b", "u", "c", "k", "e", "t", ".", "o", "r", "g" >>

\* faulty variant of NetlocIs: the suffix test lacks the leading dot
NetlocIsNoDot(netloc, domain) == EndsWith(netloc, domain)

\* netloc.endswith('.' + domain) or netloc == domain
NetlocIs(netloc, domain) == EndsWith(netloc, << "." >> \o domain) \/ netloc = domain

\* the if / elif chain over parsed_url.netloc; None when no branch is taken
ClassifyNetloc(netloc) ==
    IF NetlocIs(netloc, GithubCom) THEN Some("github")
    ELSE IF NetlocIs(netloc, GitlabCom) THEN Some("gitlab")
    ELSE IF NetlocIs(netloc, BitbucketOrg) THEN Some("bitbucket")
    ELSE None

\* repo = repo.replace('.git', '')
CleanRepoName(repo) == RemoveAll(repo, DotGit)

NoRepo == << None, None, None >>

parse_repo_url(u) ==
    LET u1 == IF StartsWith(u, GitPlus) THEN DropFirst(u, 4) ELSE u
        parsed_url == urlparse(u1)
        path_parts == Split(Strip(parsed_url.path, "/"), "/")
    IN  IF Len(path_parts) >= 2
        THEN LET org == path_parts[1]
                 repo == CleanRepoName(path_parts[2])
                 plat == ClassifyNetloc(parsed_url.netloc)
             IN  IF plat # None THEN << plat, Some(org), Some(repo) >> ELSE NoRepo
        ELSE NoRepo

----------------------------------------------------------------------------
(* URLs handed to parse_repo_url.  A URL is written from its pieces, which   *)
(* are kept next to the text so that properties can speak about the host and *)
(* the path segments the URL was written with.                               *)

\* path segments: plain, ending in ".git", holding ".git" inside, empty, ".git" alone
SegChoices ==
    { << "u", "s", "e", "r" >>,
      << "r", "e", "p", "o", ".", "g", "i", "t" >>,
      << "a", ".", "g", "i", "t", "h", "u", "b" >>,
      << >>,
      << ".", "g", "i", "t" >> }

\* the paths of at most max segments
SegLists(max) == UNION { [1 .. n -> SegChoices] : n \in 0 .. max }

\* a host: the labels in front of a registered domain, and that domain
Host(sub, base) == [sub |-> sub, base |-> base]

HostChoices ==
    { Host(<< >>, GithubCom),
      Host(<< << "w", "w", "w" >> >>, GithubCom),
      Host(<< << "a" >>, << "b" >> >>, GithubCom),
      Host(<< >>, GitlabCom),
      Host(<< << "a" >>, << "b" >> >>, GitlabCom),
      Host(<< >>, BitbucketOrg),
      Host(<< << "w", "w", "w" >> >>, BitbucketOrg),
      Host(<< >>, << "n", "o", "t", "g", "i", "t", "h", "u", "b", ".", "c", "o", "m" >>),
      Host(<< << "g", "i", "t", "h", "u", "b" >> >>, << "e", "x", "a", "m", "p", "l", "e", ".", "c", "o", "m" >>),
      Host(<< << "g", "i", "t" >> >>, << "c", "o", "m", "p", "a", "n", "y", ".", "c", "o", "m" >>) }

SchemeChoices == { None, Some(<< "h", "t", "t", "p", "s" >>), Some(<< "s", "s", "h" >>) }

\* what surrounds the host in the authority: nothing, "git@" in front, ":443" behind
AuthorityChoices == { "plain", "userinfo", "port" }

SuffixChoices == { << >>, << "?", "q", "#", "f" >> }

\* the pieces of the URLs whose path has at most max segments
UrlParts(max) ==
    [ gitplus : BOOLEAN, scheme : SchemeChoices, authority : AuthorityChoices,
      host : HostChoices, segs : SegLists(max), suffix : SuffixChoices ]

RECURSIVE JoinLabels(_)
JoinLabels(labels) ==
    IF labels = << >> THEN << >>
    ELSE labels[1] \o << "." >> \o JoinLabels(Tail(labels))

HostText(h) == JoinLabels(h.sub) \o h.base

RECURSIVE PathText(_)
PathText(segs) ==
    IF segs = << >> THEN << >>
    ELSE << "/" >> \o segs[1] \o PathText(Tail(segs))

\* the text of a URL written from its pieces; without a scheme there is no "//"
Render(p) ==
    (IF p.gitplus THEN GitPlus ELSE << >>)
    \o (IF p.scheme = None THEN << >> ELSE p.scheme[1] \o << ":", "/", "/" >>)
    \o (IF p.authority = "userinfo" THEN << "g", "i", "t", "@" >> ELSE << >>)
    \o HostText(p.host)
    \o (IF p.authority = "port" THEN << ":", "4", "4", "3" >> ELSE << >>)
    \o PathText(p.segs)
    \o p.suffix

\* state of the evaluator while a resolver call is examined
EvaluatorIdle ==
    /\ platform = "none" /\ policy = None /\ pc = "idle" /\ result = None
    /\ token = None /\ headers = EmptyDict
    /\ repo_data = EmptyDict /\ idx = 0 /\ reqs = << >> /\ exc = None
    /\ response = None

\* platform, org, repo = parse_repo_url(url)
ParseRepoUrl ==
    /\ pcU = "call"
    /\ parsed' = parse_repo_url(url)
    /\ pcU' = "done"
    /\ UNCHANGED <<url_parts, url, healthVars, extractVars, processVars>>

InitUrl ==
    /\ url_parts \in { Some(p) : p \in UrlParts(MaxSegs) }
    /\ url = Render(url_parts[1])
    /\ parsed = None
    /\ pcU = "call"
    /\ info = None /\ extracted = None /\ pcX = "idle"
    /\ EvaluatorIdle
    /\ ProcessIdle

NextUrl == ParseRepoUrl

SpecUrl == InitUrl /\ [][NextUrl]_vars

----------------------------------------------------------------------------
(* analyzer/services/package_info.py: extract_repo_info.  A project_urls     *)
(* mapping is the sequence of its (label, url) items in iteration order.     *)

primary_repo_types == { "Source", "Repository", "Code" }

secondary_repo_types == { "Homepage" }

\* faulty variant of excluded_types: the list is empty
excluded_types_empty == { }

excluded_types ==
    { "Funding", "Sponsor", "Donate", "Bug Tracker", "Issue Tracker", "Documentation" }

NoRepoInfo == << None, None, None, None >>

\* platform, org, repo = parse_repo_url(url) for every item of the mapping
\* (parse_repo_url is a pure function; the loops call it item by item)
ParsedItems(items) == [ i \in 1 .. Len(items) |-> parse_repo_url(items[i][2]) ]

\* faulty variant of ScanItems: the loop ends at the first item whose label
\* passes the test, whether or not its URL resolves
RECURSIVE ScanItemsFirstLabel(_, _, _, _, _)
ScanItemsFirstLabel(items, rs, i, labels, member) ==
    IF i > Len(items) THEN None
    ELSE IF (items[i][1] \in labels) = member
    THEN IF rs[i][1] # None
         THEN Some(<< Some(items[i][2]), rs[i][1], rs[i][2], rs[i][3] >>)
         ELSE None
    ELSE ScanItemsFirstLabel(items, rs, i + 1, labels, member)

\* one "for url_type, url in info['project_urls'].items()" loop, from item i on:
\* the first item whose label passes the loop's test and whose URL resolves.
\* rs[i] is parse_repo_url of item i's URL
RECURSIVE ScanItems(_, _, _, _, _)
ScanItems(items, rs, i, labels, member) ==
    IF i > Len(items) THEN None
    ELSE IF ((items[i][1] \in labels) = member) /\ rs[i][1] # None
    THEN Some(<< Some(items[i][2]), rs[i][1], rs[i][2], rs[i][3] >>)
    ELSE ScanItems(items, rs, i + 1, labels, member)

\* faulty variant of TierOrder: one loop that takes the first item that
\* resolves and is not excluded, whatever its label
TierOrderSinglePass(items, rs) ==
    LET any == ScanItems(items, rs, 1, excluded_types, FALSE)
    IN  IF any # None THEN any[1] ELSE NoRepoInfo

\* the three loops of extract_repo_info, in the order they are written
TierOrder(items, rs) ==
    LET first == ScanItems(items, rs, 1, primary_repo_types, TRUE)
        second == ScanItems(items, rs, 1, secondary_repo_types, TRUE)
        third == ScanItems(items, rs, 1, excluded_types, FALSE)
    IN  IF first # None THEN first[1]
        ELSE IF second # None THEN second[1]
        ELSE IF third # None THEN third[1]
        ELSE NoRepoInfo

\* lines 82-103 of extract_repo_info on the items of project_urls
ResolveTiers(items) == TierOrder(items, ParsedItems(items))

\* extract_repo_info(info): the value returned, or the exception raised by
\* info["project_urls"].items() when project_urls is null
extract_repo_info(i) ==
    IF i = None \/ DOMAIN i[1] = {} \/ "project_urls" \notin DOMAIN i[1]
    THEN [raised |-> None, value |-> NoRepoInfo]
    ELSE LET project_urls == i[1]["project_urls"] IN
         IF project_urls = None
         THEN [raised |-> Some("AttributeError"), value |-> NoRepoInfo]
         ELSE [raised |-> None, value |-> ResolveTiers(project_urls[1])]

----------------------------------------------------------------------------
(* Metadata handed to extract_repo_info *)

LabelChoices ==
    { "Source", "Repository", "Code", "Homepage", "Funding", "Download", "source" }

\* two URLs that resolve, to different platforms, and one that does not
UrlGithub == << "h", "t", "t", "p", "s", ":", "/", "/", "g", "i", "t", "h", "u", "b", ".", "c", "o", "m", "/", "a", "/", "b" >>

UrlGitlab == << "h", "t", "t", "p", "s", ":", "/", "/", "g", "i", "t", "l", "a", "b", ".", "c", "o", "m", "/", "c", "/", "d", ".", "g", "i", "t" >>

UrlOther == << "h", "t", "t", "p", "s", ":", "/", "/", "e", "x", "a", "m", "p", "l", "e", ".", "c", "o", "m", "/", "x", "/", "y" >>

UrlChoices == { UrlGithub, UrlGitlab, UrlOther }

\* the labels of an item sequence
LabelsOf(m) == { m[j][1] : j \in 1 .. Len(m) }

\* the item sequences of dicts of at most n items: no label occurs twice
RECURSIVE MappingsUpTo(_)
MappingsUpTo(n) ==
    IF n = 0 THEN { << >> }
    ELSE LET shorter == MappingsUpTo(n - 1) IN
         shorter \cup
         UNION { { Append(m, << l, u >>) : l \in LabelChoices \ LabelsOf(m), u \in UrlChoices } :
                 m \in { k \in shorter : Len(k) = n - 1 } }

\* info: absent, empty, without project_urls, with a null project_urls, or with
\* a mapping of at most max items
InfoChoices(max) ==
    { None, Some(EmptyDict), Some("summary" :> "text"), Some("project_urls" :> None) }
    \cup { Some("project_urls" :> Some(m)) : m \in MappingsUpTo(max) }

\* repo_url, platform, org, repo = extract_repo_info(info)
ExtractRepoInfo ==
    /\ pcX = "call"
    /\ LET out == extract_repo_info(info) IN
       IF out.raised # None
       THEN pcX' = "raised" /\ extracted' = extracted
       ELSE pcX' = "done" /\ extracted' = Some(out.value)
    /\ UNCHANGED <<info, healthVars, urlVars, processVars>>

InitExtract ==
    /\ info \in InfoChoices(MaxUrls)
    /\ extracted = None
    /\ pcX = "call"
    /\ url_parts = None /\ url = << >> /\ parsed = None /\ pcU = "idle"
    /\ EvaluatorIdle
    /\ ProcessIdle

NextExtract == ExtractRepoInfo

SpecExtract == InitExtract /\ [][NextExtract]_vars

----------------------------------------------------------------------------
(* analyzer/services/package_info.py: extract_npm_repo_info *)

\* faulty variant of extract_npm_repo_info: the URL returned is the one left
\* after the "git+" prefix is taken off
extract_npm_repo_info_stripped(i) ==
    IF i = None \/ DOMAIN i[1] = {} \/ "repository" \notin DOMAIN i[1]
    THEN NoRepoInfo
    ELSE LET repo_url == DictGet(i[1]["repository"], "url") IN
         IF repo_url = None \/ repo_url[1] = << >>
         THEN NoRepoInfo
         ELSE LET r == parse_repo_url(repo_url[1])
                  shown == IF StartsWith(repo_url[1], GitPlus)
                           THEN DropFirst(repo_url[1], 4) ELSE repo_url[1]
              IN  << Some(shown), r[1], r[2], r[3] >>

\* extract_npm_repo_info(info); "not repo_url" holds for None and for ""
extract_npm_repo_info(i) ==
    IF i = None \/ DOMAIN i[1] = {} \/ "repository" \notin DOMAIN i[1]
    THEN NoRepoInfo
    ELSE LET repo_url == DictGet(i[1]["repository"], "url") IN
         IF repo_url = None \/ repo_url[1] = << >>
         THEN NoRepoInfo
         ELSE LET r == parse_repo_url(repo_url[1])
              IN  << repo_url, r[1], r[2], r[3] >>

\* npm metadata whose repository carries no usable url: no metadata, an empty
\* object, no repository, a repository without url, an empty url
NpmInfoWithoutUrl ==
    { None, Some(EmptyDict), Some("name" :> "pkg"),
      Some("repository" :> EmptyDict), Some("repository" :> ("url" :> << >>)) }

\* npm metadata whose repository.url is the text u
NpmInfoWithUrl(u) == Some("repository" :> ("url" :> u))

\* repo_url, platform, org, repo = extract_npm_repo_info(info)
ExtractNpmRepoInfo ==
    /\ pcX = "call"
    /\ extracted' = Some(extract_npm_repo_info(info))
    /\ pcX' = "done"
    /\ UNCHANGED <<info, healthVars, urlVars, processVars>>

\* url_parts and url keep the pieces and the text of repository.url
InitNpm ==
    /\ url_parts \in { None } \cup { Some(p) : p \in UrlParts(MaxSegs) }
    /\ url = IF url_parts = None THEN << >> ELSE Render(url_parts[1])
    /\ info \in IF url_parts = None THEN NpmInfoWithoutUrl ELSE { NpmInfoWithUrl(url) }
    /\ extracted = None
    /\ pcX = "call"
    /\ parsed = None /\ pcU = "idle"
    /\ EvaluatorIdle
    /\ ProcessIdle

NextNpm == ExtractNpmRepoInfo

SpecNpm == InitNpm /\ [][NextNpm]_vars

----------------------------------------------------------------------------
(* Several evaluations in one process.  The upstream of each evaluation is   *)
(* fixed by the answer it gives to each request; the evaluations run the     *)
(* evaluator's code against these answers, their requests interleaved.  The  *)
(* warnings and errors lists are objects on the heap, held by address.       *)

\* requests.get raised e
Failure(e) ==
    [raised |-> Some(e), status |-> None, body |-> EmptyDict, count |-> 0, names |-> {}]

\* a response: its status_code and what the code reads from its body
Reply(st, body, count, names) ==
    [raised |-> None, status |-> Some(st), body |-> body, count |-> count, names |-> names]

\* last activity one day past the informational and past the default threshold
RecentTimestamps ==
    { [fmt |-> FmtSeconds, instant |-> now_utc - (t + 1) * 86400] :
        t \in {InformationalDays, DefaultMaxInactiveDays} }

\* the upstreams of platform p: the answers to the metadata, issues and
\* contents requests, the file names whose probe answers 200 and those whose
\* probe raises; a probe raises only where no probe answers 200
Upstreams(p) ==
    { w \in
        [ metadata :
              { Failure(e) : e \in RequestFailures }
              \cup { Reply(200, Entry(ActivityKey(p), Some(t)), 0, {}) :
                       t \in RecentTimestamps },
          issues : { Reply(st, EmptyDict, MaxCount, {}) : st \in Statuses },
          contents :
              IF p = "github"
              THEN { Reply(st, EmptyDict, 0, {}) : st \in Statuses \ {200} }
                   \cup { Reply(200, EmptyDict, 0, n) :
                            n \in { {}, { "README.md", "license" } } }
              ELSE { Reply(200, EmptyDict, 0, {}) },
          present : IF p = "github" THEN { {} }
                    ELSE SUBSET { "README.md", "COPYING.mkdn" },
          unreachable : IF p = "github" THEN { {} } ELSE { {}, { "LICENSE.md" } } ] :
        w.unreachable = {} \/ w.present = {} }

\* the answer to the probe of one file name (GitLab)
FileAnswer(w, name) ==
    IF name \in w.unreachable THEN Failure(CHOOSE e \in RequestFailures : TRUE)
    ELSE Reply(IF name \in w.present THEN 200 ELSE 404, EmptyDict, 0, {})

\* the locals of an evaluation that has built its result: lines 38-47 / 103-112
StartEval(p, w) ==
    [platform |-> p, world |-> w, pc |-> "metadata",
     result |-> NewResult(p, Owner, Repo),
     repo_data |-> EmptyDict, idx |-> 0, exc |-> None, dict |-> None]

\* the except clause and the return
Aborted(ev, e) ==
    [ev EXCEPT !.result = HandleRequestException(@, ev.platform, e), !.pc = "returned"]

\* one pass of a GitLab probe loop: the next name, the flag set, the policy enforced
Probe(ev, pol, names, readme) ==
    LET a == FileAnswer(ev.world, names[ev.idx])
        found == (a.status = Some(200))
        res == IF readme THEN [ev.result EXCEPT !.has_readme = found]
                         ELSE [ev.result EXCEPT !.has_license = found]
    IN  IF a.raised # None THEN Aborted(ev, a.raised[1])
        ELSE IF found \/ ev.idx = Len(names)
        THEN [ev EXCEPT !.result = IF readme THEN EnforceReadme(res, pol)
                                             ELSE EnforceLicense(res, pol),
                        !.pc = IF readme THEN "license" ELSE "returned",
                        !.idx = IF readme THEN 1 ELSE @]
        ELSE [ev EXCEPT !.idx = @ + 1]

\* the evaluator's code from one requests.get call to the next, or to the return
Advance(ev, pol) ==
    LET p == ev.platform
        w == ev.world
    IN  CASE ev.pc = "metadata" ->
                 IF w.metadata.raised # None THEN Aborted(ev, w.metadata.raised[1])
                 ELSE IF w.metadata.status # Some(200) THEN Aborted(ev, "HTTPError")
                 ELSE LET out == ReadMetadata(ev.result, p, pol, w.metadata.body) IN
                      [ev EXCEPT !.repo_data = w.metadata.body,
                                 !.result = out.res,
                                 !.pc = IF out.raised # None THEN "raised" ELSE "issues",
                                 !.exc = out.raised]
          [] ev.pc = "issues" ->
                 IF w.issues.raised # None THEN Aborted(ev, w.issues.raised[1])
                 ELSE IF w.issues.status # Some(200) THEN Aborted(ev, "HTTPError")
                 ELSE [ev EXCEPT !.result = ReadIssues(@, p, ev.repo_data, w.issues.count),
                                 !.pc = IF p = "github" THEN "contents" ELSE "readme",
                                 !.idx = IF p = "github" THEN @ ELSE 1]
          [] ev.pc = "contents" ->
                 IF w.contents.raised # None THEN Aborted(ev, w.contents.raised[1])
                 ELSE IF w.contents.status # Some(200) THEN [ev EXCEPT !.pc = "returned"]
                 ELSE [ev EXCEPT !.result = ScanListing(@, pol, w.contents.names),
                                 !.pc = "returned"]
          [] ev.pc = "readme" -> Probe(ev, pol, README_FILES, TRUE)
          [] ev.pc = "license" -> Probe(ev, pol, LICENSE_FILES, FALSE)
          [] OTHER -> ev

\* the evaluation run from ev to its end with nothing else running
RECURSIVE RunAlone(_, _)
RunAlone(ev, pol) ==
    IF ev.pc \in { "returned", "raised" } THEN ev ELSE RunAlone(Advance(ev, pol), pol)

\* faulty variant of AllocateLists: every instance holds the class's default lists
ShareDefaultLists(h) == [heap |-> h, warnings |-> 1, errors |-> 2]

\* faulty variant of AllocateLists: the lists are made for the first instance
\* and held by every later one
AllocateListsOnce(h) ==
    IF Len(h) = 2
    THEN [heap |-> h \o << h[1], h[2] >>, warnings |-> 3, errors |-> 4]
    ELSE [heap |-> h, warnings |-> 3, errors |-> 4]

\* warnings: List[str] = [] and errors: List[str] = []: pydantic gives each new
\* instance its own copy of a field's default.  heap[1] and heap[2] are the
\* two default objects of the class
AllocateLists(h) ==
    [heap |-> h \o << h[1], h[2] >>, warnings |-> Len(h) + 1, errors |-> Len(h) + 2]

\* the result with its two lists read from the heap
Load(h, res) == [res EXCEPT !.warnings = h[res.warnings], !.errors = h[res.errors]]

\* the policies of the requests examined: Policy() with either flag set or not
RequestPolicies ==
    [max_inactive_days : {DefaultMaxInactiveDays}, require_license : BOOLEAN,
     require_readme : BOOLEAN]

\* evaluation i builds its result object
Construct(i) ==
    /\ evals[i].pc = "start"
    /\ LET a == AllocateLists(heap)
           ev == StartEval(evals[i].platform, evals[i].world)
       IN  /\ heap' = a.heap
           /\ evals' = [evals EXCEPT ![i] =
                           [ev EXCEPT !.result.warnings = a.warnings,
                                      !.result.errors = a.errors]]
    /\ UNCHANGED <<platform, token, headers, policy, pc, result, repo_data, idx, reqs, exc, response,
                   urlVars, extractVars, deps, dep_i, results, pcA, cli>>

\* evaluation i sends its next request and runs up to the following one;
\* appending to a list changes the object the result holds.  When the
\* evaluator returns, the caller takes health.dict() (main.py)
Step(i) ==
    /\ evals[i].pc \in { "metadata", "issues", "contents", "readme", "license" }
    /\ LET cur == evals[i]
           nxt == Advance([cur EXCEPT !.result = Load(heap, cur.result)], policy)
       IN  /\ heap' = [heap EXCEPT ![cur.result.warnings] = nxt.result.warnings,
                                   ![cur.result.errors] = nxt.result.errors]
           /\ evals' = [evals EXCEPT ![i] =
                           [nxt EXCEPT !.result.warnings = cur.result.warnings,
                                       !.result.errors = cur.result.errors,
                                       !.dict = IF nxt.pc = "returned"
                                                THEN Some(nxt.result) ELSE None]]
    /\ UNCHANGED <<platform, token, headers, policy, pc, result, repo_data, idx, reqs, exc, response,
                   urlVars, extractVars, deps, dep_i, results, pcA, cli>>

\* an evaluation that was called and has not yet built its result
Called ==
    { [platform |-> p, world |-> w, pc |-> "start", result |-> None,
       repo_data |-> EmptyDict, idx |-> 0, exc |-> None, dict |-> None] :
        p \in {"github"}, w \in Upstreams("github") }
    \cup
    { [platform |-> p, world |-> w, pc |-> "start", result |-> None,
       repo_data |-> EmptyDict, idx |-> 0, exc |-> None, dict |-> None] :
        p \in {"gitlab"}, w \in Upstreams("gitlab") }

InitPair ==
    /\ policy \in RequestPolicies
    /\ evals \in [1 .. MaxEvals -> Called]
    /\ heap = << << >>, << >> >>
    /\ platform = "none" /\ pc = "idle" /\ result = None
    /\ token = None /\ headers = EmptyDict
    /\ repo_data = EmptyDict /\ idx = 0 /\ reqs = << >> /\ exc = None
    /\ response = None
    /\ ResolverIdle
    /\ deps = << >> /\ dep_i = 0 /\ results = << >> /\ pcA = "idle"
    /\ cli = None

NextPair == \E i \in 1 .. MaxEvals : Construct(i) \/ Step(i)

SpecPair == InitPair /\ [][NextPair]_vars

----------------------------------------------------------------------------
(* analyzer/main.py: analyze(), from the extracted dependencies on.  One     *)
(* action is one pass of "for dep in dependencies": the registry lookup, the *)
(* resolution of the repository and the evaluation of its health.  The       *)
(* summary, latest_version and created_date of an entry are left out.        *)

\* re.match(r"^[a-zA-Z0-9_-]+$", name) on lower-case names
ValidName(name) ==
    /\ name # << >>
    /\ \A k \in 1 .. Len(name) : name[k] \in Letters \cup Digits \cup { "_", "-" }

\* get_library_info(library_name) against the registry's answer: ValueError for
\* a name outside the pattern, None when the request fails, else the JSON body
get_library_info(name, answer) ==
    IF ~ValidName(name) THEN [raised |-> Some("ValueError"), value |-> None]
    ELSE IF answer.raised # None \/ answer.status # Some(200)
    THEN [raised |-> None, value |-> None]
    ELSE [raised |-> None, value |-> Some(answer.body)]

\* get_npm_info(package_name): the same steps against registry.npmjs.org
get_npm_info(name, answer) == get_library_info(name, answer)

\* sources the extractors give a dependency; poetry, poetry.lock and pip are
\* handled like pypi
SourceChoices == { "pypi", "conda", "npm" }

\* names as they stand in manifests: requests, zope.interface
NameChoices ==
    { << "r", "e", "q", "u", "e", "s", "t", "s" >>,
      << "z", "o", "p", "e", ".", "i", "n", "t", "e", "r", "f", "a", "c", "e" >> }

\* the dependency lists of at most max entries
DependencyLists(max) ==
    UNION { [1 .. n -> [name : NameChoices, source : SourceChoices]] : n \in 0 .. max }

\* a URL that resolves to the platform without an evaluator
UrlBitbucket == << "h", "t", "t", "p", "s", ":", "/", "/", "b", "i", "t", "b", "u", "c", "k", "e", "t", ".", "o", "r", "g", "/", "e", "/", "f" >>

\* a github.com URL whose second path segment is ".git": it resolves to the
\* platform with an empty repository name
UrlGithubNoName == << "h", "t", "t", "p", "s", ":", "/", "/", "g", "i", "t", "h", "u", "b", ".", "c", "o", "m", "/", "a", "/", ".", "g", "i", "t" >>

\* JSON bodies of the registry for a package
RegistryBodies(source) ==
    IF source = "npm"
    THEN { "repository" :> ("url" :> (GitPlus \o UrlGithub)),
           "repository" :> ("url" :> UrlBitbucket),
           "repository" :> ("url" :> UrlGithubNoName), "name" :> "pkg" }
    ELSE { "info" :> ("project_urls" :> Some(<< << "Source", UrlGithub >> >>)),
           "info" :> ("project_urls" :> Some(<< << "Source", UrlBitbucket >> >>)),
           "info" :> ("project_urls" :> Some(<< << "Homepage", UrlGitlab >> >>)),
           "info" :> ("project_urls" :> Some(<< << "Homepage", UrlOther >> >>)),
           "info" :> ("project_urls" :> None),
           "releases" :> EmptyDict }

\* what the registry answers to the lookup of a package
RegistryAnswers(source) ==
    { Failure(e) : e \in RequestFailures }
    \cup { Reply(st, EmptyDict, 0, {}) : st \in Statuses \ {200} }
    \cup { Reply(200, b, 0, {}) : b \in RegistryBodies(source) }

\* upstreams of the repositories analyze() evaluates: files present, and the
\* metadata request failing or answering with a well-formed or an
\* offset-bearing timestamp
AnalyzeUpstreams(p) ==
    [ metadata :
          { Failure(e) : e \in RequestFailures }
          \cup { Reply(200, Entry(ActivityKey(p), Some(t)), 0, {}) :
                   t \in RecentTimestamps
                         \cup { [fmt |-> "offset", instant |-> now_utc - 86400] } },
      issues : { Reply(200, EmptyDict, MaxCount, {}) },
      contents : { Reply(200, EmptyDict, 0, { "README.md", "license" }) },
      present : { { "README.md" } },
      unreachable : { {} } ]

\* an entry of results; an entry written without the "error" key has error FALSE
ErrorEntryFor(dep, message) ==
    [dependency |-> dep.name, error |-> TRUE, message |-> Some(message),
     repository |-> NoRepoInfo, health |-> None]

\* lines 97-125: the entry of a dependency whose metadata was found
InfoEntryFor(dep, repo, health) ==
    [dependency |-> dep.name, error |-> FALSE,
     message |-> IF health = None
                 THEN Some("No supported repository URL found for health check.")
                 ELSE None,
     repository |-> repo, health |-> health]

\* lines 52-88: the registry lookup and the resolution of the repository.
\* entry is the error entry appended before "continue", repo the resolved
\* repository otherwise
LookUp(dep, answer) ==
    IF dep.source \in { "pypi", "poetry", "poetry.lock", "pip", "conda" }
    THEN LET got == get_library_info(dep.name, answer) IN
         IF got.raised # None THEN [raised |-> got.raised, entry |-> None, repo |-> NoRepoInfo]
         ELSE IF got.value = None \/ DOMAIN got.value[1] = {}
         THEN [raised |-> None,
               entry |-> Some(ErrorEntryFor(dep,
                            IF dep.source = "conda"
                            THEN "Could not fetch info for {} from PyPI. This may be a conda-only or system package."
                            ELSE "Could not fetch info for {} from PyPI")),
               repo |-> NoRepoInfo]
         ELSE LET package_info_data == DictGetDefault(got.value[1], "info", EmptyDict)
                  out == extract_repo_info(Some(package_info_data))
              IN  [raised |-> out.raised, entry |-> None, repo |-> out.value]
    ELSE IF dep.source = "npm"
    THEN LET got == get_npm_info(dep.name, answer) IN
         IF got.raised # None THEN [raised |-> got.raised, entry |-> None, repo |-> NoRepoInfo]
         ELSE IF got.value = None \/ DOMAIN got.value[1] = {}
         THEN [raised |-> None,
               entry |-> Some(ErrorEntryFor(dep, "Could not fetch info for {} from npmjs.org")),
               repo |-> NoRepoInfo]
         ELSE [raised |-> None, entry |-> None, repo |-> extract_npm_repo_info(got.value)]
    ELSE [raised |-> None,
          entry |-> Some(ErrorEntryFor(dep, "Unsupported dependency source: {}")),
          repo |-> NoRepoInfo]

\* faulty variant of HealthCheckable: any resolved platform is evaluated
HealthCheckableAnyPlatform(repo) ==
    /\ repo[2] # None
    /\ repo[3] # None /\ repo[3] # Some(<< >>)
    /\ repo[4] # None /\ repo[4] # Some(<< >>)

\* if platform in ["github", "gitlab"] and org and repo
HealthCheckable(repo) ==
    /\ repo[2] \in { Some("github"), Some("gitlab") }
    /\ repo[3] # None /\ repo[3] # Some(<< >>)
    /\ repo[4] # None /\ repo[4] # Some(<< >>)

\* one pass of the loop, lines 50-125; evals holds the evaluations the loop
\* has started, each as it ended
AnalyzeDependency ==
    /\ pcA = "loop"
    /\ dep_i <= Len(deps)
    /\ \E answer \in RegistryAnswers(deps[dep_i].source) :
         \E found \in { LookUp(deps[dep_i], answer) } :
         LET dep == deps[dep_i]
         IN  IF found.raised # None
             THEN pcA' = "raised" /\ UNCHANGED <<results, dep_i, evals>>
             ELSE IF found.entry # None
             THEN /\ results' = Append(results, found.entry[1])
                  /\ dep_i' = dep_i + 1
                  /\ pcA' = pcA
                  /\ evals' = evals
             ELSE IF HealthCheckable(found.repo)
             THEN \E w \in AnalyzeUpstreams(found.repo[2][1]) :
                  \E run \in { RunAlone(
                                   [StartEval(found.repo[2][1], w) EXCEPT !.result =
                                       NewResult(found.repo[2][1], found.repo[3][1],
                                                 found.repo[4][1])],
                                   policy) } :
                        /\ evals' = Append(evals, run)
                        /\ IF run.pc = "raised"
                           THEN pcA' = "raised" /\ UNCHANGED <<results, dep_i>>
                           ELSE /\ results' = Append(results,
                                                  InfoEntryFor(dep, found.repo, Some(run.result)))
                                /\ dep_i' = dep_i + 1
                                /\ pcA' = pcA
             ELSE /\ results' = Append(results, InfoEntryFor(dep, found.repo, None))
                  /\ dep_i' = dep_i + 1
                  /\ pcA' = pcA
                  /\ evals' = evals
    /\ UNCHANGED <<platform, token, headers, policy, pc, result, repo_data, idx, reqs, exc, response,
                   urlVars, extractVars, heap, deps, cli>>

\* return {"results": results}
ReturnResults ==
    /\ pcA = "loop"
    /\ dep_i > Len(deps)
    /\ pcA' = "returned"
    /\ UNCHANGED <<platform, token, headers, policy, pc, result, repo_data, idx, reqs, exc, response,
                   urlVars, extractVars, evals, heap, deps, dep_i, results, cli>>

\* the extractor has returned the dependencies and results is empty
InitAnalyze ==
    /\ policy \in RequestPolicies
    /\ deps \in DependencyLists(MaxDeps)
    /\ dep_i = 1
    /\ results = << >>
    /\ pcA = "loop"
    /\ evals = << >> /\ heap = << >>
    /\ platform = "none" /\ pc = "idle" /\ result = None
    /\ token = None /\ headers = EmptyDict
    /\ repo_data = EmptyDict /\ idx = 0 /\ reqs = << >> /\ exc = None
    /\ response = None
    /\ ResolverIdle
    /\ cli = None

NextAnalyze == AnalyzeDependency \/ ReturnResults

SpecAnalyze == InitAnalyze /\ [][NextAnalyze]_vars

----------------------------------------------------------------------------
(* extractor/cli.py: the extract command, from the call of the analyzer      *)
(* service on.  The manifest file exists and its type was given or inferred. *)

\* the manifest types the fallback has an extractor for
FallbackTypes ==
    { "requirements.txt", "environment.yml", "pyproject.toml", "package.json",
      "poetry.lock" }

\* manifest types of a run: inferred from the file name, or the text given
\* with --manifest-type
ManifestTypeChoices == FallbackTypes \cup { "setup.py" }

\* exceptions requests.post raises; ConnectTimeout is a ConnectionError,
\* ReadTimeout is not
PostFailures == { "ConnectionError", "ConnectTimeout", "ReadTimeout" }

\* statuses of the analyzer's response; raise_for_status() raises HTTPError
\* unless the status is a success
PostStatuses == { 200, 400, 500 }

\* faulty variant of CaughtAsConnectionError: the first except clause names
\* RequestException
CaughtAsRequestException(e) ==
    e \in { "ConnectionError", "ConnectTimeout", "ReadTimeout", "HTTPError" }

\* except requests.exceptions.ConnectionError
CaughtAsConnectionError(e) == e \in { "ConnectionError", "ConnectTimeout" }

\* the payload of lines 96-104
Payload(c) ==
    [manifest_type |-> c.manifest_type,
     policy |-> [max_inactive_days |-> c.policy, require_license |-> TRUE,
                 require_readme |-> TRUE]]

\* the run ends: what it wrote to standard output and its exit code
Exit(c, out, code) == [c EXCEPT !.pc = "exited", !.output = out, !.exit_code = Some(code)]

\* lines 94-143 up to the fallback extraction: the request, the output of the
\* analysis, and the two except clauses
CallAnalyzer ==
    /\ cli # None
    /\ cli.pc = "post"
    /\ \E e \in PostFailures \cup { "HTTPError", "none" } :
       \E st \in IF e = "HTTPError" THEN PostStatuses \ {200}
                 ELSE IF e = "none" THEN {200} ELSE { 0 } :
         LET c == [cli EXCEPT !.posted = Some(Payload(cli)),
                              !.raised = IF e = "none" THEN None ELSE Some(e),
                              !.status = IF st = 0 THEN None ELSE Some(st)]
         IN  cli' =
               IF e = "none"
               THEN Exit(c, IF c.format = "json" THEN "analysis json" ELSE "analysis report", 0)
               ELSE IF CaughtAsConnectionError(e)
               THEN IF c.manifest_type \in FallbackTypes
                    THEN [c EXCEPT !.pc = "fallback"]
                    ELSE Exit(c, "", 1)
               ELSE Exit(c, "", 1)
    /\ UNCHANGED <<healthVars, urlVars, extractVars, evals, heap, deps, dep_i, results, pcA>>

\* lines 120-139: the extractor of the manifest type reads the file; a
\* malformed manifest makes it raise, which ends the run with exit code 1
FallbackExtraction ==
    /\ cli # None
    /\ cli.pc = "fallback"
    /\ \E parses \in BOOLEAN :
         LET c == [cli EXCEPT !.extracted = TRUE] IN
         cli' = IF parses
                THEN Exit(c, IF c.format = "json" THEN "dependencies json"
                                                  ELSE "dependencies list", 0)
                ELSE Exit(c, "", 1)
    /\ UNCHANGED <<healthVars, urlVars, extractVars, evals, heap, deps, dep_i, results, pcA>>

\* the run is about to call the analyzer; --format is human or json and
\* --policy a number of days
InitCli ==
    /\ cli \in [ pc : { "post" }, manifest_type : ManifestTypeChoices,
                  format : { "human", "json" },
                  policy : { 30, 180, DefaultMaxInactiveDays },
                  posted : { None }, raised : { None }, status : { None },
                  extracted : { FALSE }, output : { "" }, exit_code : { None } ]
    /\ EvaluatorIdle
    /\ ResolverIdle
    /\ evals = << >> /\ heap = << >>
    /\ deps = << >> /\ dep_i = 0 /\ results = << >> /\ pcA = "idle"

NextCli == CallAnalyzer \/ FallbackExtraction

SpecCli == InitCli /\ [][NextCli]_vars

----------------------------------------------------------------------------
(* Properties of the health evaluators, checked under SpecHealth *)

Returned == pc = "returned"

InWarnings(w) == \E i \in 1 .. Len(result.warnings) : result.warnings[i] = w

IsInactivityWarning(w) == w.fmt = InactiveFmt

\* the inactivity warnings of the result, in order
InactivityWarnings(res) == SelectSeq(res.warnings, IsInactivityWarning)

\* C1: is_healthy starts true and, within one evaluation of either evaluator,
\* no step sets it back to true once a step has set it to false.
C1_HealthMonotonic ==
    /\ result.is_healthy
    /\ [][ (~result.is_healthy) => ~result'.is_healthy ]_vars

\* C1 witness: an evaluation whose metadata step marked the repository unhealthy
\* for inactivity and whose later steps (issues, file checks, which found both
\* files) ran to the return with the flag still false.
C1_Witness ==
    /\ Returned
    /\ result.errors = << >>
    /\ result.warnings = << InactiveWarning(policy.max_inactive_days) >>
    /\ result.has_readme /\ result.has_license
    /\ result.open_issues_count # None
    /\ ~result.is_healthy

\* C2: whatever the upstream answers (any field values, an error status, a
\* network exception), no exception leaves the evaluator.
C2_NoExceptionEscapes == pc # "raised" /\ exc = None

\* C3: a check_github_health evaluation that finishes without a network
\* exception warns about, and marks unhealthy for, every required file that
\* has_readme / has_license reports missing, whatever the status of the
\* root-listing request.
C3_GithubRequiredFilesEnforced ==
    (platform = "github" /\ Returned /\ result.errors = << >>) =>
        /\ (policy.require_readme /\ ~result.has_readme) =>
               (InWarnings(NoReadmeWarning) /\ ~result.is_healthy)
        /\ (policy.require_license /\ ~result.has_license) =>
               (InWarnings(NoLicenseWarning) /\ ~result.is_healthy)

\* the inactivity warnings the claim C4 prescribes for age d under threshold m
C4_Prescribed(d, m) ==
    IF d > m THEN << InactiveWarning(m) >>
    ELSE IF d > 90 THEN << InactiveWarning(90) >>
    ELSE << >>

\* C4: for age d and threshold m, the step that computes d appends exactly the
\* over-m warning and clears is_healthy when d > m, else exactly the over-90
\* warning without touching is_healthy when d > 90, else nothing; and in every
\* state the result holds exactly those inactivity warnings, so never two.
C4_InactivityWarning ==
    /\ [] ( pc # "idle" =>
              InactivityWarnings(result) =
                  IF result.days_since_last_activity = None THEN << >>
                  ELSE C4_Prescribed(result.days_since_last_activity[1],
                                     policy.max_inactive_days) )
    /\ [][ (pc = "metadata" /\ result'.days_since_last_activity # None) =>
             LET d == result'.days_since_last_activity[1]
                 m == policy.max_inactive_days
             IN  /\ result'.warnings = result.warnings \o C4_Prescribed(d, m)
                 /\ result'.is_healthy = (result.is_healthy /\ ~(d > m)) ]_vars

\* C4 witness: a finished evaluation of a repository 91 days inactive under the
\* 365 day threshold: the informational warning alone, and still healthy.
C4_Witness ==
    /\ Returned
    /\ policy.max_inactive_days = 365
    /\ result.days_since_last_activity = Some(91)
    /\ result.warnings = << InactiveWarning(90) >>
    /\ result.is_healthy

\* C5: when the first request of an evaluation fails, the result holds exactly
\* one error, with the platform's prefix, is unhealthy, has no warnings and has
\* every other field at its default.
C5_FirstRequestFails ==
    (Returned /\ Len(reqs) = 1) =>
        /\ Len(result.errors) = 1
        /\ result.errors[1].fmt =
               (IF platform = "github" THEN "Error checking GitHub repository: {}"
                                       ELSE "Error checking GitLab repository: {}")
        /\ ~result.is_healthy
        /\ result.warnings = << >>
        /\ result.last_activity = None
        /\ result.days_since_last_activity = None
        /\ result.open_issues_count = None
        /\ result.stars_count = None
        /\ result.forks_count = None
        /\ ~result.has_readme /\ ~result.has_license

\* C5 witness: a GitLab evaluation returned after its metadata request raised.
C5_Witness ==
    /\ Returned
    /\ platform = "gitlab"
    /\ reqs = << Request("metadata", None) >>
    /\ result.errors = << ErrorEntry("gitlab", "ConnectionError") >>

\* C16: in check_github_health a root-listing response with a non-success
\* status leaves has_readme and has_license false and adds nothing to errors.
C16_ListingFailureIsSilent ==
    [][ (platform = "github" /\ pc = "contents"
           /\ response' # None /\ response' # Some(200)) =>
            /\ ~result'.has_readme /\ ~result'.has_license
            /\ result'.errors = result.errors ]_vars

\* C16 witness: a GitHub evaluation returned after its third request, the
\* listing, was answered 404: no error, both flags false.
C16_Witness ==
    /\ Returned
    /\ platform = "github"
    /\ Len(reqs) = 3
    /\ response = Some(404)
    /\ result.errors = << >>
    /\ ~result.has_readme /\ ~result.has_license
    /\ result.open_issues_count # None

\* C15: days_since_last_activity, once set, is not negative, also when the
\* last-activity timestamp lies after the instant of the evaluation.
C15_DaysNonNegative ==
    (pc # "idle" /\ result.days_since_last_activity # None) =>
        result.days_since_last_activity[1] >= 0

\* the latest request raised, or it was the metadata or issues request (then
\* in pc) and its response carries an error status
RequestFailed(at) ==
    \/ response' = None
    \/ at \in { "metadata", "issues" } /\ response' # Some(200)

\* C23: in both evaluators a request that raises, and a metadata or issues
\* request answered with an error status, is the last request of the
\* evaluation; no request follows a recorded error and no request is issued
\* twice.
C23_FailFastNoRetry ==
    /\ [][ reqs' # reqs =>
             /\ result.errors = << >>
             /\ Len(reqs') = Len(reqs) + 1
             /\ \A i \in 1 .. Len(reqs) : reqs[i] # reqs'[Len(reqs')]
             /\ RequestFailed(pc) =>
                    /\ pc' = "returned"
                    /\ Len(result'.errors) = 1 ]_vars
    /\ [][ (pc = "returned" \/ pc = "raised") => reqs' = reqs ]_vars

\* C23 witness: a GitLab evaluation returned after its third README probe
\* raised: five requests, the last one the probe of README.txt, one error.
C23_Witness ==
    /\ Returned
    /\ platform = "gitlab"
    /\ Len(reqs) = 5
    /\ reqs[5].name = Some("README.txt")
    /\ response = None
    /\ Len(result.errors) = 1

\* C24: when a request after the metadata request fails, the step changes
\* nothing of the result but errors, which receives its single entry, and
\* is_healthy, which becomes false; so the result returned carries the
\* last_activity, days_since_last_activity and inactivity warning of the
\* metadata, and when it is the issues request that failed the three counts
\* are unset, both flags false and no README or LICENSE warning is present.
C24_PartialProgressKept ==
    /\ [][ (pc \in { "issues", "contents", "readme", "license" }
            /\ reqs' # reqs /\ Len(result'.errors) > 0) =>
              /\ Len(result'.errors) = 1
              /\ ~result'.is_healthy
              /\ [result' EXCEPT !.errors = << >>, !.is_healthy = TRUE]
                     = [result EXCEPT !.errors = << >>, !.is_healthy = TRUE] ]_vars
    /\ [] ( (Returned /\ Len(reqs) = 2 /\ Len(result.errors) > 0) =>
              LET la == IF ActivityKey(platform) \in DOMAIN repo_data
                        THEN Some(repo_data[ActivityKey(platform)]) ELSE None
                  days == IF la # None /\ la[1].fmt # "empty"
                          THEN Some((now_utc - la[1].instant) \div 86400) ELSE None
              IN  /\ result.last_activity = la
                  /\ result.days_since_last_activity = days
                  /\ result.warnings =
                         IF days = None THEN << >>
                         ELSE C4_Prescribed(days[1], policy.max_inactive_days)
                  /\ result.open_issues_count = None
                  /\ result.stars_count = None
                  /\ result.forks_count = None
                  /\ ~result.has_readme /\ ~result.has_license )

\* C24 witness: a GitHub evaluation whose metadata showed 366 days of
\* inactivity and whose issues request failed: the activity fields and the
\* over-365 warning are there next to the error, the counts are unset.
C24_Witness ==
    /\ Returned
    /\ platform = "github"
    /\ Len(reqs) = 2
    /\ result.last_activity # None
    /\ result.days_since_last_activity = Some(366)
    /\ result.warnings = << InactiveWarning(365) >>
    /\ Len(result.errors) = 1
    /\ result.open_issues_count = None

\* the requests so far are the metadata and issues requests followed by the
\* probes of the first r README names and of the first l LICENSE names
ProbedInOrder(r, l) ==
    /\ Len(reqs) = 2 + r + l
    /\ reqs[1].what = "metadata" /\ reqs[2].what = "issues"
    /\ \A i \in 1 .. r :
           reqs[2 + i].what = "file" /\ reqs[2 + i].name = Some(README_FILES[i])
    /\ \A i \in 1 .. l :
           reqs[2 + r + i].what = "file" /\ reqs[2 + r + i].name = Some(LICENSE_FILES[i])

\* a probe of the category whose loop is at "at", over n names, was answered:
\* 200 sets the flag and ends the loop, another status leaves the flag false,
\* records no error and goes to the next name or, after the last one, ends
\* the loop
ProbeAnswered(at, after, n, flag, flagAfter) ==
    (pc = at /\ reqs' # reqs /\ response' # None) =>
        /\ result'.errors = result.errors
        /\ ~flag
        /\ flagAfter = (response' = Some(200))
        /\ pc' = IF response' = Some(200) \/ Len(reqs') = n THEN after ELSE at

\* C26: check_gitlab_health probes the README names in list order and stops
\* at the first probe answered 200, then probes the LICENSE names the same
\* way whether or not a README was found; a flag is true exactly when a probe
\* of its category was answered 200; a probe answered otherwise records no
\* error; so a GitLab evaluation issues at most 21 requests, a GitHub one at
\* most 3.
C26_ProbesInOrder ==
    /\ [] ( platform = "gitlab" =>
              \/ Len(reqs) <= 2
              \/ \E r \in 1 .. 7 : \E l \in 0 .. 12 :
                    /\ ProbedInOrder(r, l)
                    /\ l > 0 => (r = 7 \/ result.has_readme)
                    /\ (pc = "license" \/ (Returned /\ result.errors = << >>)) =>
                           (r = 7 \/ result.has_readme) )
    /\ [] ( Len(reqs) <= IF platform = "github" THEN 3 ELSE 21 )
    /\ [][ platform = "gitlab" =>
             /\ ProbeAnswered("readme", "license", 2 + 7,
                               result.has_readme, result'.has_readme)
             /\ pc = "license" =>
                    /\ result'.has_readme = result.has_readme
                    /\ \E r \in 1 .. 7 :
                          /\ Len(reqs) >= 2 + r
                          /\ reqs[2 + r].name = Some(README_FILES[r])
                          /\ (Len(reqs) > 2 + r) => reqs[3 + r].name = Some("LICENSE")
                          /\ ProbeAnswered("license", "returned", 2 + r + 12,
                                           result.has_license, result'.has_license)
             /\ pc \in { "metadata", "issues" } =>
                    (result'.has_readme = FALSE /\ result'.has_license = FALSE) ]_vars

\* C26 witness: a GitLab evaluation that asked for all 7 README names and all
\* 12 LICENSE names, each answered 404, and returned with both flags false
\* and no error.
C26_Witness ==
    /\ Returned
    /\ platform = "gitlab"
    /\ Len(reqs) = 21
    /\ ProbedInOrder(7, 12)
    /\ ~result.has_readme /\ ~result.has_license
    /\ result.errors = << >>

\* the credential a request carries, if any
Credential(req) ==
    IF "Authorization" \in DOMAIN req.headers THEN Some(req.headers["Authorization"].val[1])
    ELSE IF "PRIVATE-TOKEN" \in DOMAIN req.headers THEN Some(req.headers["PRIVATE-TOKEN"])
    ELSE None

\* C27: with a token, every request of the evaluation (metadata, issues,
\* listing, every file probe) carries that token, in the Authorization header
\* for GitHub and the PRIVATE-TOKEN header for GitLab; without a token no
\* request carries a credential.  An empty text counts as no token.
C27_UniformAuthentication ==
    pc # "idle" =>
        \A i \in 1 .. Len(reqs) :
            /\ Credential(reqs[i]) =
                   IF token = None \/ token = Some("") THEN None ELSE token
            /\ Credential(reqs[i]) # None =>
                   DOMAIN reqs[i].headers \ { "Accept" } =
                       { IF platform = "github" THEN "Authorization" ELSE "PRIVATE-TOKEN" }

\* C27 witness: a GitLab evaluation with a token returned after 21 requests,
\* the last of them a file probe carrying the token.
C27_Witness ==
    /\ Returned
    /\ platform = "gitlab"
    /\ token = Some("secret")
    /\ Len(reqs) = 21
    /\ reqs[21].what = "file"
    /\ reqs[21].headers = ("PRIVATE-TOKEN" :> "secret")

\* the warnings that go with an unhealthy verdict under the policy
VerdictWarnings ==
    { [fmt |-> "Repository has been inactive for over {} days",
       val |-> Some(policy.max_inactive_days)],
      [fmt |-> "No README file found", val |-> None],
      [fmt |-> "No LICENSE file found", val |-> None] }

\* C28 as claimed: a returned result is unhealthy exactly when errors is not
\* empty or warnings holds the over-max_inactive_days warning, "No README file
\* found" or "No LICENSE file found"; and a result with no error whose only
\* warning reads "Repository has been inactive for over 90 days" is healthy.
C28_InformationalAloneIsHealthy ==
    Returned =>
        /\ ~result.is_healthy <=>
               \/ Len(result.errors) > 0
               \/ \E i \in 1 .. Len(result.warnings) : result.warnings[i] \in VerdictWarnings
        /\ ( /\ result.errors = << >>
             /\ result.warnings =
                    << [fmt |-> "Repository has been inactive for over {} days",
                        val |-> Some(90)] >> ) => result.is_healthy

\* C28 as amended: a returned result is unhealthy exactly when errors is not
\* empty or warnings holds the over-max_inactive_days warning, "No README file
\* found" or "No LICENSE file found"; a result with no error whose only
\* warning is the over-90-days one is healthy when the policy's threshold is
\* not 90, and unhealthy when it is.
C28_VerdictMatchesFindings ==
    Returned =>
        /\ ~result.is_healthy <=>
               \/ Len(result.errors) > 0
               \/ \E i \in 1 .. Len(result.warnings) : result.warnings[i] \in VerdictWarnings
        /\ ( /\ result.errors = << >>
             /\ policy.max_inactive_days # 90
             /\ result.warnings =
                    << [fmt |-> "Repository has been inactive for over {} days",
                        val |-> Some(90)] >> ) => result.is_healthy
        /\ ( /\ policy.max_inactive_days = 90
             /\ result.warnings =
                    << [fmt |-> "Repository has been inactive for over {} days",
                        val |-> Some(90)] >> ) => ~result.is_healthy

\* C28 witness: a GitLab evaluation under the 365 day threshold returned with
\* both files found, no error and the over-90-days warning alone, healthy.
C28_Witness ==
    /\ Returned
    /\ platform = "gitlab"
    /\ policy.max_inactive_days = 365
    /\ result.has_readme /\ result.has_license
    /\ result.errors = << >>
    /\ result.warnings = << InactiveWarning(90) >>
    /\ result.is_healthy

\* the step a warning comes from: 1 activity, 2 README, 3 LICENSE
StepOfWarning(w) ==
    IF w.fmt = "Repository has been inactive for over {} days" THEN 1
    ELSE IF w.fmt = "No README file found" THEN 2
    ELSE IF w.fmt = "No LICENSE file found" THEN 3
    ELSE 0

\* C29: no step removes or reorders a warning; in every result the warnings
\* stand in the order of the steps (inactivity, then "No README file found",
\* then "No LICENSE file found") with at most one warning per step, so no
\* warning occurs twice.
C29_WarningsOrdered ==
    /\ [] ( pc # "idle" =>
              \A i, j \in 1 .. Len(result.warnings) :
                  i < j => /\ StepOfWarning(result.warnings[i]) >= 1
                           /\ StepOfWarning(result.warnings[i])
                                  < StepOfWarning(result.warnings[j]) )
    /\ [][ /\ Len(result'.warnings) >= Len(result.warnings)
           /\ SubSeq(result'.warnings, 1, Len(result.warnings)) = result.warnings ]_vars

\* C29 witness: a GitHub evaluation returned the over-threshold warning, then
\* "No README file found", then "No LICENSE file found".
C29_Witness ==
    /\ Returned
    /\ platform = "github"
    /\ Len(result.warnings) = 3
    /\ StepOfWarning(result.warnings[1]) = 1
    /\ result.warnings[2] = NoReadmeWarning
    /\ result.warnings[3] = NoLicenseWarning

\* C30: errors never holds more than one entry; the step that records the
\* entry changes nothing else of the result but is_healthy, which it sets to
\* false, and is the last step of the evaluation: once errors holds an entry
\* the evaluator has returned and the result stays as it is.
C30_SingleFinalError ==
    /\ [] ( pc # "idle" =>
              /\ Len(result.errors) <= 1
              /\ Len(result.errors) = 1 => (Returned /\ ~result.is_healthy) )
    /\ [][ /\ result'.errors # result.errors =>
                 /\ result.errors = << >>
                 /\ Len(result'.errors) = 1
                 /\ result'.warnings = result.warnings
                 /\ [result' EXCEPT !.errors = << >>, !.is_healthy = result.is_healthy]
                        = result
                 /\ pc' = "returned"
           /\ Len(result.errors) = 1 => result' = result ]_vars

\* C30 witness: a GitHub evaluation whose listing request raised: the issue
\* and star counts are set, the inactivity warning is the only warning and
\* the one error stands in errors.
C30_Witness ==
    /\ Returned
    /\ platform = "github"
    /\ Len(reqs) = 3
    /\ response = None
    /\ result.open_issues_count # None
    /\ Len(result.warnings) = 1
    /\ result.errors = << ErrorEntry("github", "ConnectionError") >>
    /\ ~result.is_healthy

----------------------------------------------------------------------------
(* Properties of parse_repo_url, checked under SpecUrl *)

KnownDomains == { GithubCom, GitlabCom, BitbucketOrg }

PlatformOfDomain(d) ==
    IF d = GithubCom THEN "github" ELSE IF d = GitlabCom THEN "gitlab" ELSE "bitbucket"

\* the host is one of the three domains or a direct subdomain of one
ExactOrDirectSubdomain(h) == h.base \in KnownDomains /\ Len(h.sub) <= 1

\* s without a final ".git"
StripGitSuffix(s) == IF EndsWith(s, DotGit) THEN SubSeq(s, 1, Len(s) - 4) ELSE s

\* the URL is written with a scheme and its first two path segments are not empty
TwoSegmentUrl(p) ==
    /\ p.scheme # None
    /\ Len(p.segs) >= 2
    /\ p.segs[1] # << >>
    /\ p.segs[2] # << >>

\* C6: a URL with a recognized host and at least two path segments yields the
\* host's platform, the first segment as organization and the second segment
\* without a trailing ".git" as repository.
C6_RecognizedUrlResolved ==
    pcU = "done" =>
        LET p == url_parts[1] IN
        (TwoSegmentUrl(p) /\ ExactOrDirectSubdomain(p.host)) =>
            parsed = << Some(PlatformOfDomain(p.host.base)), Some(p.segs[1]),
                        Some(StripGitSuffix(p.segs[2])) >>

\* C7: the repository returned is the second path segment with a final ".git"
\* removed and otherwise unchanged.
C7_OnlyTrailingGitStripped ==
    (pcU = "done" /\ parsed[1] # None /\ TwoSegmentUrl(url_parts[1])) =>
        parsed[3] = Some(StripGitSuffix(url_parts[1].segs[2]))

\* C8 as claimed: a host that is none of the three domains and no direct
\* subdomain of one yields (None, None, None).
C8_OnlyDirectSubdomains ==
    (pcU = "done" /\ ~ExactOrDirectSubdomain(url_parts[1].host)) => parsed = NoRepo

\* C8 as amended: a host that is none of the three domains and no subdomain of
\* one, at any depth, yields (None, None, None).
C8_UnknownDomainUnresolved ==
    (pcU = "done" /\ url_parts[1].host.base \notin KnownDomains) => parsed = NoRepo

\* C8 witness: https://notgithub.com/user/repo.git was parsed and not resolved.
C8_Witness ==
    /\ pcU = "done"
    /\ url = << "h", "t", "t", "p", "s", ":", "/", "/", "n", "o", "t", "g", "i", "t", "h", "u", "b", ".", "c", "o", "m", "/", "u", "s", "e", "r", "/", "r", "e", "p", "o", ".", "g", "i", "t" >>
    /\ parsed = NoRepo

\* C9: platform is None exactly when organization and repository are None, and
\* a resolved reference has a non-empty organization and repository.
C9_ResolvedPartsNonEmpty ==
    pcU = "done" =>
        /\ (parsed[1] = None) <=> (parsed[2] = None /\ parsed[3] = None)
        /\ parsed[1] # None =>
               /\ parsed[2] # None /\ parsed[2] # Some(<< >>)
               /\ parsed[3] # None /\ parsed[3] # Some(<< >>)

\* C25: the result depends on the host and the path alone: a URL written
\* with a scheme resolves to what every URL of the same host, path and suffix
\* resolves to, whatever its scheme and whether or not the authority carries
\* "git@" in front of the host or ":443" behind it.
C25_HostAloneDecides ==
    (pcU = "done" /\ url_parts[1].scheme # None) =>
        \A sc \in SchemeChoices \ { None } : \A a \in AuthorityChoices :
            parse_repo_url(Render([url_parts[1] EXCEPT !.scheme = sc, !.authority = a]))
                = parsed

----------------------------------------------------------------------------
(* Properties of extract_repo_info, checked under SpecExtract *)

\* the call returned and info carried a project_urls mapping
ExtractedFromMapping ==
    /\ pcX = "done"
    /\ info # None
    /\ "project_urls" \in DOMAIN info[1]
    /\ info[1]["project_urls"] # None

\* the URLs of the mapping that resolve and sit under one of the given labels
ResolvingUnder(labels) ==
    LET items == info[1]["project_urls"][1] IN
    { items[i][2] : i \in { j \in 1 .. Len(items) :
                              /\ items[j][1] \in labels
                              /\ parse_repo_url(items[j][2])[1] # None } }

\* C10: if a URL under Source, Repository or Code resolves, the URL returned is
\* such a URL, wherever Homepage or other labels stand in the mapping; if none
\* does and the Homepage URL resolves, the Homepage URL is returned.
C10_TierOrder ==
    ExtractedFromMapping =>
        LET tier1 == ResolvingUnder({ "Source", "Repository", "Code" })
            home == ResolvingUnder({ "Homepage" })
        IN  /\ tier1 # {} => extracted[1][1] \in { Some(u) : u \in tier1 }
            /\ (tier1 = {} /\ home # {}) => extracted[1][1] \in { Some(u) : u \in home }

\* C10 witness: Homepage (a GitHub URL) stands before Source (a GitLab URL) and
\* the Source URL was returned.
C10_Witness ==
    /\ ExtractedFromMapping
    /\ info[1]["project_urls"][1] =
           << << "Homepage", UrlGithub >>, << "Source", UrlGitlab >> >>
    /\ extracted = Some(<< Some(UrlGitlab), Some("gitlab"),
                           Some(<< "c" >>), Some(<< "d" >>) >>)

\* the URLs of the inputs that parse_repo_url resolves
ResolvingUrls == { u \in UrlChoices : parse_repo_url(u)[1] # None }

\* the positions of the mapping's items whose label is (member) or is not in
\* labels and whose URL resolves
ResolvingAt(labels, member) ==
    LET items == info[1]["project_urls"][1] IN
    { j \in 1 .. Len(items) : /\ (items[j][1] \in labels) = member
                              /\ items[j][2] \in ResolvingUrls }

Least(S) == CHOOSE x \in S : \A y \in S : x <= y

\* C11: the URL returned is the first one, in mapping order, that resolves in
\* the first tier holding a URL that resolves; URLs that do not resolve are
\* passed over, within a tier and from one tier to the next, and the result is
\* (None, None, None, None) only if no tier holds a URL that resolves.
C11_FirstResolvableWins ==
    ExtractedFromMapping =>
        LET items == info[1]["project_urls"][1]
            t1 == ResolvingAt({ "Source", "Repository", "Code" }, TRUE)
            t2 == ResolvingAt({ "Homepage" }, TRUE)
            t3 == ResolvingAt({ "Funding", "Sponsor", "Donate", "Bug Tracker",
                                "Issue Tracker", "Documentation" }, FALSE)
            best == IF t1 # {} THEN t1 ELSE IF t2 # {} THEN t2 ELSE t3
        IN  IF best = {}
            THEN extracted = Some(NoRepoInfo)
            ELSE /\ extracted[1][1] = Some(items[Least(best)][2])
                 /\ extracted[1][2] # None

\* C11 witness: the first Source-tier URL does not resolve, the Homepage URL
\* stands before the second Source-tier URL, and that second URL was returned.
C11_Witness ==
    /\ ExtractedFromMapping
    /\ info[1]["project_urls"][1] =
           << << "Source", UrlOther >>, << "Homepage", UrlGithub >>,
              << "Code", UrlGitlab >> >>
    /\ extracted[1][1] = Some(UrlGitlab)

\* C12: the URL returned stands under a label outside {Funding, Sponsor,
\* Donate, Bug Tracker, Issue Tracker, Documentation}; when every URL that
\* resolves stands under one of these labels the result is
\* (None, None, None, None).
C12_ExcludedNeverReturned ==
    ExtractedFromMapping =>
        LET items == info[1]["project_urls"][1]
            excluded == { "Funding", "Sponsor", "Donate", "Bug Tracker",
                          "Issue Tracker", "Documentation" }
        IN  /\ extracted[1][1] # None =>
                   \E j \in 1 .. Len(items) :
                       /\ items[j][1] \notin excluded
                       /\ extracted[1][1] = Some(items[j][2])
            /\ ResolvingAt(excluded, FALSE) = {} => extracted = Some(NoRepoInfo)

\* C12 witness: a GitHub URL under Funding, unresolvable URLs under Homepage
\* and Download, and nothing was returned.
C12_Witness ==
    /\ ExtractedFromMapping
    /\ info[1]["project_urls"][1] =
           << << "Funding", UrlGithub >>, << "Homepage", UrlOther >>,
              << "Download", UrlOther >> >>
    /\ extracted = Some(NoRepoInfo)

\* C13: extract_repo_info never raises, and when project_urls is missing,
\* null, empty or holds no URL that resolves it returns
\* (None, None, None, None).
C13_MissNeverRaises ==
    /\ pcX # "raised"
    /\ (pcX = "done" /\ (~ExtractedFromMapping \/ ResolvingAt({ }, FALSE) = {})) =>
           extracted = Some(NoRepoInfo)

----------------------------------------------------------------------------
(* Properties of extract_npm_repo_info, checked under SpecNpm *)

\* the metadata has a repository field and the repository has a url
NpmHasUrl ==
    /\ info # None
    /\ "repository" \in DOMAIN info[1]
    /\ "url" \in DOMAIN info[1]["repository"]
    /\ info[1]["repository"]["url"] # << >>

\* C14: without a repository field or without a url in it the result is
\* (None, None, None, None); otherwise the URL returned is repository.url as it
\* stands, "git+" included, next to parse_repo_url of it; and a URL written
\* with "git+" in front parses to what the URL without it parses to.
C14_NpmRawUrlAndParse ==
    pcX = "done" =>
        IF ~NpmHasUrl
        THEN extracted = Some(NoRepoInfo)
        ELSE LET raw == info[1]["repository"]["url"]
                 r == parse_repo_url(raw)
                 bare == Render([url_parts[1] EXCEPT !.gitplus = FALSE])
             IN  /\ extracted = Some(<< Some(raw), r[1], r[2], r[3] >>)
                 /\ url_parts[1].gitplus =>
                        /\ raw = GitPlus \o bare
                        /\ ~StartsWith(bare, GitPlus)
                        /\ r = parse_repo_url(bare)

\* C14 witness: git+https://github.com/user/repo.git came back as it was
\* written, resolved to github, user, repo.
C14_Witness ==
    /\ pcX = "done"
    /\ NpmHasUrl
    /\ url = << "g", "i", "t", "+", "h", "t", "t", "p", "s", ":", "/", "/", "g", "i", "t", "h", "u", "b", ".", "c", "o", "m", "/", "u", "s", "e", "r", "/", "r", "e", "p", "o", ".", "g", "i", "t" >>
    /\ extracted = Some(<< Some(url), Some("github"),
                           Some(<< "u", "s", "e", "r" >>), Some(<< "r", "e", "p", "o" >>) >>)

----------------------------------------------------------------------------
(* Properties of several evaluations in one process, checked under SpecPair *)

\* evaluation i has returned
Finished(i) == evals[i].pc = "returned"

\* the result evaluation i returned, as its caller received it
ResultOf(i) == evals[i].dict[1]

\* C17: a check_github_health and a check_gitlab_health evaluation under the
\* same policy that both finish without a network exception, with the same
\* days_since_last_activity and the same has_readme and has_license, return
\* the same warnings in the same order and the same is_healthy.
C17_SamePolicySemantics ==
    \A i, j \in 1 .. MaxEvals :
        ( /\ Finished(i) /\ evals[i].platform = "github"
          /\ Finished(j) /\ evals[j].platform = "gitlab"
          /\ ResultOf(i).errors = << >> /\ ResultOf(j).errors = << >>
          /\ ResultOf(i).days_since_last_activity = ResultOf(j).days_since_last_activity
          /\ ResultOf(i).has_readme = ResultOf(j).has_readme
          /\ ResultOf(i).has_license = ResultOf(j).has_license ) =>
            /\ ResultOf(i).warnings = ResultOf(j).warnings
            /\ ResultOf(i).is_healthy = ResultOf(j).is_healthy

\* C18: two evaluations by the same evaluator with the same owner, repository
\* and policy, the same upstream answers and the same instant return results
\* equal in every field.
C18_Deterministic ==
    \A i, j \in 1 .. MaxEvals :
        ( /\ Finished(i) /\ Finished(j)
          /\ evals[i].platform = evals[j].platform
          /\ evals[i].world = evals[j].world ) =>
            ResultOf(i) = ResultOf(j)

\* C18 witness: two GitLab evaluations of the same upstream have both returned,
\* each with the inactivity, README and LICENSE warnings.
C18_Witness ==
    /\ pcA = "idle" /\ Len(evals) = 2
    /\ Finished(1) /\ Finished(2)
    /\ evals[1].platform = "gitlab" /\ evals[2].platform = "gitlab"
    /\ evals[1].world = evals[2].world
    /\ ResultOf(2).warnings =
           << InactiveWarning(DefaultMaxInactiveDays), NoReadmeWarning, NoLicenseWarning >>
    /\ ResultOf(1) = ResultOf(2)

\* C19: evaluations hold no list in common; the result an evaluation returns
\* is the result it returns when it runs alone, so its warnings and errors are
\* those of its own steps; and the object it returned stays as it was returned.
C19_NoSharedState ==
    \A i \in 1 .. MaxEvals :
        evals[i].pc # "start" =>
            /\ \A j \in (1 .. MaxEvals) \ {i} :
                   evals[j].pc # "start" =>
                       { evals[i].result.warnings, evals[i].result.errors }
                       \cap { evals[j].result.warnings, evals[j].result.errors } = {}
            /\ Finished(i) =>
                   /\ ResultOf(i) =
                          RunAlone(StartEval(evals[i].platform, evals[i].world), policy).result
                   /\ Load(heap, evals[i].result) = ResultOf(i)

\* C19 witness: a GitHub evaluation returned an inactivity warning and an
\* error while a GitLab evaluation, begun before that return, stands in its
\* LICENSE probes holding two warnings of its own and no error.
C19_Witness ==
    /\ pcA = "idle" /\ Len(evals) = 2
    /\ Finished(1) /\ evals[1].platform = "github"
    /\ ResultOf(1).warnings = << InactiveWarning(DefaultMaxInactiveDays) >>
    /\ ResultOf(1).errors = << ErrorEntry("github", "HTTPError") >>
    /\ evals[2].platform = "gitlab" /\ evals[2].pc = "license" /\ evals[2].idx = 5
    /\ Load(heap, evals[2].result).warnings =
           << InactiveWarning(InformationalDays), NoReadmeWarning >>
    /\ Load(heap, evals[2].result).errors = << >>

----------------------------------------------------------------------------
(* Properties of analyze(), checked under SpecAnalyze *)

\* C20: analyze() does not raise; the entries written so far are those of the
\* dependencies passed so far, one each and in their order, so that the list
\* returned has one entry per dependency; and a dependency whose lookup failed
\* has an entry with error set, after which the loop goes on.
C20_OneEntryPerDependency ==
    pcA # "idle" =>
        /\ pcA # "raised"
        /\ Len(results) = dep_i - 1
        /\ \A k \in 1 .. Len(results) : results[k].dependency = deps[k].name
        /\ pcA = "returned" => Len(results) = Len(deps)

\* the repository of an entry names github or gitlab, an organization and a
\* repository name
SupportedRepository(repo) ==
    /\ repo[2] \in { Some("github"), Some("gitlab") }
    /\ repo[3] # None /\ Len(repo[3][1]) > 0
    /\ repo[4] # None /\ Len(repo[4][1]) > 0

NoHealthMessage == "No supported repository URL found for health check."

\* C21: analyze() starts an evaluation only for a repository resolved to
\* github or gitlab with a non-empty organization and name; for any other
\* resolved repository the pass starts no evaluation and writes an entry with
\* health null and the message "No supported repository URL found for health
\* check."; an entry with a health is one of a supported repository.
C21_HealthOnlyForSupported ==
    /\ [] ( \A k \in 1 .. Len(results) :
               ~results[k].error =>
                   IF SupportedRepository(results[k].repository)
                   THEN results[k].health # None
                   ELSE /\ results[k].health = None
                        /\ results[k].message = Some(NoHealthMessage) )
    /\ [][ /\ evals' # evals =>
                 /\ Len(evals') = Len(evals) + 1
                 /\ evals'[Len(evals')].platform \in { "github", "gitlab" }
                 /\ Len(evals'[Len(evals')].result.owner) > 0
                 /\ Len(evals'[Len(evals')].result.repo_name) > 0
           /\ (Len(results') > Len(results) /\ results'[Len(results')].health = None) =>
                 evals' = evals
           /\ (Len(results') > Len(results) /\ results'[Len(results')].health # None) =>
                 /\ evals' # evals
                 /\ results'[Len(results')].health = Some(evals'[Len(evals')].result) ]_vars

\* C21 witness: a package whose Source URL is on bitbucket.org and an npm
\* package whose repository resolves to github with an empty name each got an
\* entry without health and with the message, and no evaluation was started.
C21_Witness ==
    /\ pcA = "returned"
    /\ Len(results) = 2
    /\ results[1].repository =
           << Some(UrlBitbucket), Some("bitbucket"), Some(<< "e" >>), Some(<< "f" >>) >>
    /\ results[2].repository =
           << Some(UrlGithubNoName), Some("github"), Some(<< "a" >>), Some(<< >>) >>
    /\ \A k \in 1 .. 2 : /\ results[k].health = None
                          /\ results[k].message = Some(NoHealthMessage)
    /\ evals = << >>

----------------------------------------------------------------------------
(* Properties of the CLI's extract command, checked under SpecCli *)

CliExited == cli # None /\ cli.pc = "exited"

\* C22 as claimed: the run falls back to the local extraction and exits with
\* code 0 if and only if the call of the analyzer failed with a connection
\* error; after any other failure of the call it exits with code 1 and the
\* extraction has not run.
C22_FallbackIffConnectionError ==
    CliExited =>
        /\ (cli.extracted /\ cli.exit_code = Some(0)) <=>
               (cli.raised \in { Some("ConnectionError"), Some("ConnectTimeout") })
        /\ (cli.raised \in { Some("ReadTimeout"), Some("HTTPError") }) =>
               (cli.exit_code = Some(1) /\ ~cli.extracted)

\* C22 as amended: the local extraction runs if and only if the call failed
\* with a connection error and the manifest type is one of the five the
\* fallback supports; the exit code is 0 if and only if the call succeeded or
\* the extraction ran and parsed the manifest; after any other failure of the
\* call the exit code is 1 and the extraction has not run.
C22_FallbackOnSupportedType ==
    CliExited =>
        /\ cli.extracted <=>
               /\ cli.raised \in { Some("ConnectionError"), Some("ConnectTimeout") }
               /\ cli.manifest_type \in { "requirements.txt", "environment.yml",
                                           "pyproject.toml", "package.json", "poetry.lock" }
        /\ (cli.exit_code = Some(0)) <=>
               \/ cli.raised = None
               \/ cli.extracted /\ cli.output \in { "dependencies json", "dependencies list" }
        /\ cli.exit_code \in { Some(0), Some(1) }
        /\ (cli.raised \in { Some("ReadTimeout"), Some("HTTPError") }) =>
               (cli.exit_code = Some(1) /\ ~cli.extracted)

\* C22 witness: with --manifest-type setup.py the call failed with a
\* connection error and the run ended with exit code 1, no extraction run.
C22_Witness ==
    /\ CliExited
    /\ cli.manifest_type = "setup.py"
    /\ cli.raised = Some("ConnectionError")
    /\ ~cli.extracted
    /\ cli.exit_code = Some(1)

====
